---- MODULE Spec2Model ----
(***************************************************************************)
(* A model of the report-text extractors of MatchDashboard.jsx             *)
(* (extractTimelineEvents, parseTeamfightContent, parsePlayerContent,      *)
(* parseTeamPlayers) and of the MatchDashboard fetch state machine.        *)
(*                                                                         *)
(* A report text is a sequence of lexemes (strings).  The lexemes are      *)
(* chosen so that every literal of every regular expression in the source  *)
(* is a concatenation of lexemes; blanks between lexemes are implicit and   *)
(* only the line break "\n" is a lexeme of its own.  The regular           *)
(* expressions are written down node by node and run by a backtracking     *)
(* matcher with JavaScript's priorities (leftmost start, ordered           *)
(* alternatives, greedy and lazy repetition).                              *)
(***************************************************************************)
EXTENDS Integers, Sequences, FiniteSets, TLC

(***************************************************************************)
(* State                                                                   *)
(***************************************************************************)
VARIABLES
    called,          \* the extractor that ran last ("none" before any call)
    content,         \* the report text handed to the extractors
    events,          \* what extractTimelineEvents returned
    teamfightData,   \* what parseTeamfightContent returned
    playerData,      \* what parsePlayerContent returned
    section,         \* the roster section handed to parseTeamPlayers
    players,         \* the roster parseTeamPlayers returned
    ran,             \* the player patterns its for loop ran
    threw,           \* the last call ended in an exception
    lastIndex,       \* lastIndex of the g-flag patterns when the last call ended
    seen,            \* every (text, result) pair the calls produced, per extractor
    again,           \* the last call was given a text its extractor had seen
    calls,           \* how many extractor calls were made
    matchId,         \* MatchDashboard: the route's matchId
    analysis,        \* MatchDashboard: useState(null)
    loading,         \* MatchDashboard: useState(true)
    error,           \* MatchDashboard: useState(null)
    pending,         \* the getMatchAnalysis calls in flight
    fetches,         \* how many getMatchAnalysis calls were started
    outcome,         \* how the call that settled last ended
    settled,         \* the getMatchAnalysis call that settled last
    messages,        \* ChatInterface: useState([])
    isLoading,       \* ChatInterface: useState(false)
    input,           \* ChatInput: useState('')
    inFlight,        \* the sendMessage calls in flight
    sends,           \* how many messages were handed to handleSendMessage
    chatResult       \* how the sendMessage call that settled last ended

extractorVars == << called, content, events, teamfightData, playerData, section,
                    players, ran, threw, lastIndex, seen, again, calls >>
dashboardVars == << matchId, analysis, loading, error, pending, fetches, outcome,
                    settled >>
chatVars == << messages, isLoading, input, inFlight, sends, chatResult >>
vars == << extractorVars, dashboardVars, chatVars >>

(***************************************************************************)
(* Lexemes                                                                 *)
(***************************************************************************)
Bold == "**"
LP == "("
RP == ")"
NL == "\n"
Colon == ":"
Dot == "."
Bang == "!"
Hash == "###"

\* plain words: no '*', '(', ')', ':', '.', '!', digit or line break inside
HeroToks == {"Miracle-", "Topson", "Ana", "Ceb", "Jerax"}
NameToks == {"Invoker", "Pudge", "Io", "Axe", "Tiny"}
WordToks == {"text", "Epic"}
RatingToks == {"Exceptional", "Good", "Average"}
BelowTok == "Below "
KdaToks == {"10/2/5", "3/7/1", "0/0/9"}
NumToks == {"12", "7", "3"}
DamageToks == {"25,000", "3,100"}
SwingToks == {"+5,000", "-3,200"}
PctToks == {"85%", "72.5%"}
TimeSeq == << "1:00", "2:00", "3:00", "4:00", "5:00", "6:00", "7:00", "8:00",
             "9:00", "10:00", "11:00", "12:00", "13:00", "14:00", "15:00",
             "16:00", "17:00", "18:00", "19:00", "20:00" >>
TimeToks == {TimeSeq[i] : i \in 1..Len(TimeSeq)}
KeywordToks == {"tower", "roshan", "barracks", "first blood"}
LabelToks == {"Overall ", "Performance", "Radiant", "Dire", "Team", "Team 1",
              "Team 2", "Standout", "Performances", "Summary", "Comparison",
              "MVP", "is the", "candidate is", "KDA", "Hero Damage",
              "Tower Damage", "/min", "total of", "a", "teamfights",
              "teamfight", "in total", "featured", "Wins", "Win",
              "Critical Teamfight", "Timestamp", "Gold and XP Swing",
              "Gold/XP Swing", "gold", "XP", "experience", "Impact",
              "What happened", "most impactful", "Player", "was", "-"}
PunctToks == {Bold, LP, RP, NL, Colon, Dot, Bang, Hash, "##"}

Alphabet ==
    HeroToks \cup NameToks \cup WordToks \cup RatingToks \cup {BelowTok}
    \cup KdaToks \cup NumToks \cup DamageToks \cup SwingToks \cup PctToks \cup TimeToks
    \cup KeywordToks \cup LabelToks \cup PunctToks

\* character classes of the patterns, as sets of lexemes
AnyTok == Alphabet                          \* [^]
NotNL == Alphabet \ {NL}                    \* .
NotStar == Alphabet \ {Bold}                \* [^*]
NotLP == Alphabet \ {LP}                    \* [^(]
NotRP == Alphabet \ {RP}                    \* [^)]
\* [^:]  (a time such as 1:00 has a colon inside)
NotColon == Alphabet \ ({Colon} \cup TimeToks)
NotDot == Alphabet \ {Dot}                  \* [^.]
Space == {NL}                               \* \s beyond the implicit blanks

(***************************************************************************)
(* Regular expressions: nodes and the backtracking matcher                 *)
(***************************************************************************)
Tok(S) == [op |-> "set", s |-> S]
Cat(a) == [op |-> "cat", a |-> a]
Alt(a) == [op |-> "alt", a |-> a]
Opt(r) == [op |-> "opt", r |-> r]
Rep(S, min, lazy) == [op |-> "rep", s |-> S, min |-> min, lazy |-> lazy]
Grp(n, r) == [op |-> "grp", n |-> n, r |-> r]
L(x) == Tok({x})
Star(S) == Rep(S, 0, FALSE)                 \* S*
Lazy(S) == Rep(S, 0, TRUE)                  \* S*?
Lazy1(S) == Rep(S, 1, TRUE)                 \* S+?
Plus(S) == Rep(S, 1, FALSE)                 \* S+

MaxGroups == 5
Undef == <<0, 0>>
NoCaps == [g \in 1..MaxGroups |-> Undef]

Least(S) == CHOOSE x \in S : \A y \in S : x <= y

\* number of consecutive lexemes of t from position p that lie in S
RunLen(S, t, p) ==
    LET stops == {q \in p..Len(t) : t[q] \notin S}
    IN  IF stops = {} THEN Len(t) + 1 - p ELSE Least(stops) - p

\* the ways a repetition that can run over n lexemes matches from p: the
\* shortest first when lazy, the longest first when greedy
RepWays(r, p, c, n) ==
    IF n < r.min THEN << >>
    ELSE [k \in 1..(n - r.min + 1) |->
            [e |-> IF r.lazy THEN p + r.min + k - 1 ELSE p + n - k + 1,
             c |-> c]]

RECURSIVE M(_, _, _, _)
RECURSIVE MCat(_, _, _, _)
RECURSIVE MAlt(_, _, _, _, _)
RECURSIVE MEach(_, _, _, _, _)

\* every way r matches t from position p, best first: <<[e, c], ...>> where e
\* is the position after the match and c the captures
M(r, t, p, c) ==
    CASE r.op = "set" ->
            IF p <= Len(t) /\ t[p] \in r.s
            THEN << [e |-> p + 1, c |-> c] >> ELSE << >>
      [] r.op = "cat" -> MCat(r.a, 1, t, << [e |-> p, c |-> c] >>)
      [] r.op = "alt" -> MAlt(r.a, 1, t, p, c)
      [] r.op = "opt" -> M(r.r, t, p, c) \o << [e |-> p, c |-> c] >>
      [] r.op = "rep" -> RepWays(r, p, c, RunLen(r.s, t, p))
      [] r.op = "grp" ->
            LET in == M(r.r, t, p, c)
            IN  [k \in 1..Len(in) |->
                    [e |-> in[k].e,
                     c |-> [in[k].c EXCEPT ![r.n] = <<p, in[k].e>>]]]

MCat(a, i, t, states) ==
    IF i > Len(a) \/ states = << >> THEN states
    ELSE MCat(a, i + 1, t, MEach(a[i], t, states, 1, Len(states)))

MAlt(a, i, t, p, c) ==
    IF i > Len(a) THEN << >>
    ELSE M(a[i], t, p, c) \o MAlt(a, i + 1, t, p, c)

\* r tried after each of the ways states[lo..hi], in their order
MEach(r, t, states, lo, hi) ==
    IF lo > hi THEN << >>
    ELSE IF lo = hi THEN M(r, t, states[lo].e, states[lo].c)
    ELSE LET mid == (lo + hi) \div 2
         IN  MEach(r, t, states, lo, mid) \o MEach(r, t, states, mid + 1, hi)

NoMatch == [found |-> FALSE, s |-> 0, e |-> 0, c |-> NoCaps]

\* of the starts tried, each with the ways the pattern matches there, the
\* leftmost start that has a way, with its best way
FirstHit(tried) ==
    LET hits == {h \in tried : h[2] # << >>}
    IN  IF hits = {} THEN NoMatch
        ELSE LET h == CHOOSE x \in hits : \A y \in hits : x[1] <= y[1]
             IN  [found |-> TRUE, s |-> h[1], e |-> h[2][1].e, c |-> h[2][1].c]

\* RegExp.prototype.exec from lastIndex `from` (1-based position): the
\* leftmost start at which r matches, with the best match there
Exec(r, t, from) ==
    FirstHit({<< q, M(r, t, q, NoCaps) >> : q \in from..(Len(t) + 1)})

\* String.prototype.match without the g flag
Match(r, t) == Exec(r, t, 1)

\* text of a match and of its captures
Whole(t, m) == SubSeq(t, m.s, m.e - 1)
Group(t, m, g) == SubSeq(t, m.c[g][1], m.c[g][2] - 1)
HasGroup(m, g) == m.c[g] # Undef

RECURSIVE Trim(_)
\* String.prototype.trim: blanks are implicit, line breaks are lexemes
Trim(t) ==
    IF t = << >> THEN t
    ELSE IF Head(t) = NL THEN Trim(Tail(t))
    ELSE IF t[Len(t)] = NL THEN Trim(SubSeq(t, 1, Len(t) - 1))
    ELSE t

\* lastIndex of a RegExp object a regex literal has just made (lines 396 and
\* 507-509 make new objects on every call; line 513 sets 0 once more)
FreshLastIndex == 0

\* lastIndex once exec has returned null
LastIndexAfterNull == 0

RECURSIVE ExecAll(_, _, _)
RECURSIVE ExecNext(_, _, _)
\* the loop `while ((match = re.exec(text)) !== null)` of a g-flag pattern from
\* lastIndex `from`: every match in turn, each starting where the last ended
ExecAll(r, t, from) == ExecNext(r, t, Exec(r, t, from))

\* the loop once exec has returned m
ExecNext(r, t, m) == IF ~m.found THEN << >> ELSE <<m>> \o ExecAll(r, t, m.e)

\* String.prototype.includes / indexOf for a run of lexemes (0: not found)
IndexOf(t, sub, from) ==
    LET at == {q \in from..(Len(t) + 1 - Len(sub)) :
                  SubSeq(t, q, q + Len(sub) - 1) = sub}
    IN  IF at = {} THEN 0 ELSE Least(at)

Includes(t, sub) == IndexOf(t, sub, 1) # 0

\* characters a lexeme stands for, its trailing blank included
Width(tok) ==
    CASE tok = "text" -> 45
      [] tok = NL -> 1
      [] tok \in {LP, RP, Colon, Dot, Bang} -> 1
      [] tok = Bold -> 2
      [] OTHER -> 8

RECURSIVE TextWidth(_)
TextWidth(t) == IF t = << >> THEN 0 ELSE Width(Head(t)) + TextWidth(Tail(t))

RECURSIVE FitCount(_, _)
\* how many leading lexemes of t fit entirely in n characters
FitCount(t, n) ==
    IF t = << >> \/ Width(Head(t)) > n THEN 0
    ELSE 1 + FitCount(Tail(t), n - Width(Head(t)))

\* String.prototype.substring(0, n): the lexemes that fit, and how many
\* characters of the next lexeme are kept
Substring(t, n) ==
    LET k == FitCount(t, n)
    IN  [toks |-> SubSeq(t, 1, k),
         cut |-> IF k < Len(t) THEN n - TextWidth(SubSeq(t, 1, k)) ELSE 0]

RECURSIVE SplitFrom(_, _, _, _)
RECURSIVE SplitAt(_, _, _, _)
\* String.prototype.split on a pattern: the pieces between successive matches;
\* `from` is where the current piece starts, `at` where the search goes on
SplitFrom(r, t, from, at) == SplitAt(r, t, from, Exec(r, t, at))

\* the pieces from `from` on, m being the next match of the pattern
SplitAt(r, t, from, m) ==
    IF ~m.found THEN << SubSeq(t, from, Len(t)) >>
    ELSE << SubSeq(t, from, m.s - 1) >> \o SplitFrom(r, t, m.e, m.e)

Split(r, t) == SplitFrom(r, t, 1, 1)

\* a literal string as a pattern
Str(lit) == Cat([i \in 1..Len(lit) |-> L(lit[i])])

SplitStr(t, lit) == Split(Str(lit), t)

\* JavaScript values that may be undefined, and the TypeError of a property
\* access on undefined
Val(v) == [def |-> TRUE, threw |-> FALSE, v |-> v]
Undefined == [def |-> FALSE, threw |-> FALSE, v |-> << >>]
TypeError == [def |-> FALSE, threw |-> TRUE, v |-> << >>]

\* array[k - 1]: undefined past the end
Elem(a, k) == IF k <= Len(a) THEN Val(a[k]) ELSE Undefined

\* x?.f(...) : undefined stays undefined
OptCall(x, F(_)) == IF x.def THEN F(x.v) ELSE x

\* x.f(...) : a TypeError when x is undefined
Call(x, F(_)) == IF x.def THEN F(x.v) ELSE IF x.threw THEN x ELSE TypeError

\* x || '' : the empty string when x is undefined or empty
OrEmpty(x) == IF x.def THEN x.v ELSE << >>

(***************************************************************************)
(* parseTeamPlayers                                                        *)
(***************************************************************************)
RatingWord ==
    Alt(<< L("Exceptional"), L("Good"), L("Average"),
           Cat(<< L(BelowTok), L("Average") >>) >>)

\* \*\*(.+?)\s*\((.+?)\)\*\*
PlayerHead ==
    << L(Bold), Grp(1, Lazy1(NotNL)), Star(Space), L(LP),
       Grp(2, Lazy1(NotNL)), L(RP), L(Bold) >>

playerPatterns ==
    << Cat(PlayerHead \o
           << Grp(3, Lazy(AnyTok)), L("Overall "), L("Performance"), L(Colon),
              Star(NotStar), L(Bold), Grp(4, Lazy1(NotStar)), L(Bold) >>),
       Cat(PlayerHead \o
           << Grp(3, Lazy(AnyTok)), L("Performance"), L(Colon),
              Star(NotStar), L(Bold), Grp(4, Lazy1(NotStar)), L(Bold) >>),
       Cat(PlayerHead \o
           << Lazy(AnyTok), Grp(3, Tok(KdaToks)), Lazy(AnyTok), RatingWord >>) >>

\* (\d+)\/(\d+)\/(\d+) : the three numbers of a K/D/A lexeme
KdaParts(k) ==
    CASE k = "10/2/5" -> << "10", "2", "5" >>
      [] k = "3/7/1" -> << "3", "7", "1" >>
      [] k = "0/0/9" -> << "0", "0", "9" >>

\* \w+ : lexemes made of word characters only
WordLike == WordToks \cup NumToks \cup NameToks \cup RatingToks
            \cup {"Topson", "Ana", "Ceb", "Jerax", "gold", "XP", "experience",
                  "KDA", "MVP"}

\* (\w+(?:\s+\w+)?)\/min[^(]*\((\d+(?:\.\d+)?)%\)
percentRegex ==
    Cat(<< Grp(1, Cat(<< Tok(WordLike), Opt(Tok(WordLike)) >>)), L("/min"),
           Star(NotLP), L(LP), Grp(2, Tok(PctToks)), L(RP) >>)

Ellipsis == "..."

\* lines 532-550: up to three percentage phrases, else the cut detail text
HighlightsOf(details, percentMatches, cutText) ==
    IF percentMatches # << >>
    THEN [k \in 1..(IF Len(percentMatches) < 3 THEN Len(percentMatches) ELSE 3) |->
             [toks |-> Whole(details, percentMatches[k]), cut |-> 0, tail |-> ""]]
    ELSE << [toks |-> Trim(cutText.toks), cut |-> cutText.cut,
             tail |-> Ellipsis] >>

\* lines 534-535: the percentage phrases of the details
PercentMatches(details) ==
    IF \E i \in 1..Len(details) : details[i] \in PctToks
    THEN ExecAll(percentRegex, details, 1) ELSE << >>

Highlights(details) ==
    HighlightsOf(details, PercentMatches(details), Substring(details, 80))

\* the captures bound with name and hero the other way round
DestructureNameFirst(sec, m) ==
    [fullMatch |-> Whole(sec, m),
     hero |-> Group(sec, m, 2), name |-> Group(sec, m, 1),
     details |-> Group(sec, m, 3),
     performance |-> IF HasGroup(m, 4) THEN Group(sec, m, 4) ELSE << >>]

\* line 517: `const [fullMatch, hero, name, details, performance] = match;`
\* (an undefined performance is taken for '' by line 526)
Destructure(sec, m) ==
    [fullMatch |-> Whole(sec, m),
     hero |-> Group(sec, m, 1), name |-> Group(sec, m, 2),
     details |-> Group(sec, m, 3),
     performance |-> IF HasGroup(m, 4) THEN Group(sec, m, 4) ELSE << >>]

\* lines 528-529: the rating word of the block, 'Average' when it has none
FallbackRating(fullMatch, perfMatch) ==
    IF perfMatch.found THEN Whole(fullMatch, perfMatch) ELSE << "Average" >>

\* lines 526-530
PerfRating(d) ==
    IF d.performance # << >> THEN d.performance
    ELSE FallbackRating(d.fullMatch, Match(RatingWord, d.fullMatch))

\* lines 520-523 and 542-552: the record pushed when the details hold a K/D/A
PushIfKda(d, kdaMatch) ==
    IF kdaMatch.found
    THEN << [hero |-> Trim(d.hero),
             name |-> Trim(d.name),
             kills |-> KdaParts(Whole(d.details, kdaMatch)[1])[1],
             deaths |-> KdaParts(Whole(d.details, kdaMatch)[1])[2],
             assists |-> KdaParts(Whole(d.details, kdaMatch)[1])[3],
             performance |-> Trim(PerfRating(d)),
             highlights |-> Highlights(d.details)] >>
    ELSE << >>

\* lines 520-552 for the captures d of one match
PlayerFrom(d) == PushIfKda(d, Match(Tok(KdaToks), d.details))

\* lines 517-552: the body of the while loop for one match of pattern p; the
\* player record, or << >> when the details hold no K/D/A
PlayerOf(sec, m) == PlayerFrom(Destructure(sec, m))

RECURSIVE PlayersOfMatches(_, _, _)
PlayersOfMatches(sec, ms, k) ==
    IF k > Len(ms) THEN << >>
    ELSE PlayerOf(sec, ms[k]) \o PlayersOfMatches(sec, ms, k + 1)

\* lines 513-553: one pattern's while loop, from lastIndex 0
PlayersOfPattern(sec, i) ==
    PlayersOfMatches(sec, ExecAll(playerPatterns[i], sec, FreshLastIndex + 1), 1)

\* the loop without its break
NeverStop(ps) == FALSE

\* line 556: `if (players.length > 0) break;`
StopAfter(ps) == ps # << >>

RECURSIVE PlayerLoop(_, _, _, _)
RECURSIVE AfterPattern(_, _, _, _)
\* lines 512-557: the for loop over playerPatterns from pattern i on, with the
\* players pushed so far and the patterns run so far
PlayerLoop(sec, i, ps, tried) ==
    IF i > Len(playerPatterns) THEN [players |-> ps, ran |-> tried]
    ELSE AfterPattern(sec, i, ps \o PlayersOfPattern(sec, i), tried \cup {i})

\* lines 555-557: pattern i has run and the players are now `now`
AfterPattern(sec, i, now, tried) ==
    IF StopAfter(now) THEN [players |-> now, ran |-> tried]
    ELSE PlayerLoop(sec, i + 1, now, tried)

\* line 503: `const players = []`
NewPlayers == << >>

parseTeamPlayers(sec) == PlayerLoop(sec, 1, NewPlayers, {}).players

(***************************************************************************)
(* extractTimelineEvents                                                   *)
(***************************************************************************)
MaxEvents == 10
DescriptionMax == 100

\* /(\d+:\d+)/g
timeRegex == Grp(1, Tok(TimeToks))

\* a test any sentence with text passes, whatever it names
HasAnyText(sentence) == sentence # << >>

\* lines 347-350: the sentence names a tower, roshan, barracks or first blood
HasKeyword(sentence) == \E i \in 1..Len(sentence) : sentence[i] \in KeywordToks

RECURSIVE SelectNonBlank(_)
\* .filter(s => s.trim())
SelectNonBlank(ss) ==
    IF ss = << >> THEN << >>
    ELSE (IF Trim(Head(ss)) # << >> THEN << Head(ss) >> ELSE << >>)
         \o SelectNonBlank(Tail(ss))

\* lines 344-357: the events one sentence pushes, one per time it mentions
EventsOfTimes(sentence, match) ==
    IF HasKeyword(sentence)
    THEN [k \in 1..Len(match) |->
             [time |-> Whole(sentence, match[k])[1],
              description |-> Substring(Trim(sentence), DescriptionMax)]]
    ELSE << >>

\* line 344: sentence.match(timeRegex), every time of the sentence
EventsOfSentence(sentence) ==
    EventsOfTimes(sentence, ExecAll(timeRegex, sentence, 1))

RECURSIVE EventsOfSentences(_, _)
EventsOfSentences(ss, evs) ==
    IF ss = << >> THEN evs
    ELSE EventsOfSentences(Tail(ss), evs \o EventsOfSentence(Head(ss)))

\* every event returned, none cut off
NoSlice(evs) == evs

\* line 360: events.slice(0, 10)
SliceEvents(evs) ==
    SubSeq(evs, 1, IF Len(evs) < MaxEvents THEN Len(evs) ELSE MaxEvents)

\* an accumulator that outlives the call
CarriedEvents == events

\* line 339: `const events = []`
NewEvents == << >>

extractTimelineEvents(text) ==
    LET sentences == SelectNonBlank(Split(Tok({Dot, Bang}), text))
    IN  SliceEvents(EventsOfSentences(sentences, NewEvents))

(***************************************************************************)
(* parseTeamfightContent                                                   *)
(***************************************************************************)
Teamfights == Tok({"teamfights", "teamfight"})          \* teamfights?

\* line 369: /total of \*\*(\d+) teamfights?\*\*/i
totalOfBold ==
    Cat(<< L("total of"), L(Bold), Grp(1, Tok(NumToks)), Teamfights, L(Bold) >>)
\* line 370: /\*\*(\d+) teamfights?\*\*/i
boldTotal == Cat(<< L(Bold), Grp(1, Tok(NumToks)), Teamfights, L(Bold) >>)
\* line 371: /(\d+) teamfights? in total/i
inTotal == Cat(<< Grp(1, Tok(NumToks)), Teamfights, L("in total") >>)
\* line 372: /featured (?:a total of )?(\d+) teamfights?/i
featuredTotal ==
    Cat(<< L("featured"), Opt(Cat(<< L("a"), L("total of") >>)),
           Grp(1, Tok(NumToks)), Teamfights >>)

\* the list with its loosest patterns first
totalPatternsLoosestFirst == << inTotal, featuredTotal, boldTotal, totalOfBold >>

\* lines 368-373
totalPatterns == << totalOfBold, boldTotal, inTotal, featuredTotal >>

\* parseInt of a run of digits
ParseInt(n) == CASE n = "12" -> 12 [] n = "7" -> 7 [] n = "3" -> 3

RECURSIVE FirstTotal(_, _)
RECURSIVE TotalOr(_, _, _)
\* lines 375-381: the first pattern of the list, from i on, that matches
FirstTotal(text, i) ==
    IF i > Len(totalPatterns) THEN 0
    ELSE TotalOr(text, i, Match(totalPatterns[i], text))

\* lines 376-380: pattern i has given match
TotalOr(text, i, match) ==
    IF match.found THEN ParseInt(Group(text, match, 1)[1])
    ELSE FirstTotal(text, i + 1)

\* lines 384-385
team1WinRegex ==
    Cat(<< Alt(<< L("Team 1"), L("Radiant") >>), Star(NotColon),
           Tok({"Wins", "Win"}), Star(NotColon), L(Colon), Star(Space),
           Grp(1, Tok(NumToks)) >>)
team2WinRegex ==
    Cat(<< Alt(<< L("Team 2"), L("Dire") >>), Star(NotColon),
           Tok({"Wins", "Win"}), Star(NotColon), L(Colon), Star(Space),
           Grp(1, Tok(NumToks)) >>)

\* lines 386-387
WinsIn(text, m) == IF m.found THEN ParseInt(Group(text, m, 1)[1]) ELSE 0

WinsOf(re, text) == WinsIn(text, Match(re, text))

\* line 396
fightRegex ==
    Cat(<< Tok({"##", Hash}), Star(Space), L("Critical Teamfight"), Tok(NumToks),
           Star({Colon, "-", NL}), Grp(1, Lazy1(NotNL)), L(NL), Lazy(AnyTok),
           L(Bold), L("Timestamp"), Star(NotColon), L(Colon), L(Bold),
           Star(NotLP), L(LP), Grp(2, Plus(NotRP)), L(RP), Lazy(AnyTok),
           Alt(<< Cat(<< L(Bold), L("Gold and XP Swing"), L(Colon), L(Bold) >>),
                  Cat(<< L(Bold), L("Gold/XP Swing"), L(Colon), L(Bold) >>) >>),
           Star(NotColon), Opt(L(Colon)), Star(Space), Grp(3, Plus(NotNL)) >>)

\* [+-]?\d+,?\d*
SignedNumber == Tok(SwingToks \cup NumToks \cup DamageToks)

\* lines 401-402
goldRegex == Cat(<< Grp(1, SignedNumber), Star(Space), L("gold") >>)
xpRegex == Cat(<< Grp(1, SignedNumber), Star(Space), Tok({"XP", "experience"}) >>)

\* line 405
impactRegex ==
    Cat(<< L(Bold), L("Impact"), Star(NotColon), L(Colon), L(Bold),
           Star(NotStar), L(Bold), Grp(1, Lazy1(NotStar)), L(Bold) >>)

NA == << "N/A" >>

\* .replace(/\./g, '')
RECURSIVE StripDots(_)
StripDots(t) ==
    IF t = << >> THEN t
    ELSE (IF Head(t) = Dot THEN << >> ELSE << Head(t) >>) \o StripDots(Tail(t))

\* /What happened[^:]*:/i
whatHappened == Cat(<< L("What happened"), Star(NotColon), L(Colon) >>)

FightDescriptionMax == 200

\* line 414: fullMatch.split(/What happened[^:]*:/i)[1]?.split('*')[0]
\*           ?.trim().substring(0, 200)
FightDescriptionChain(fullMatch) ==
    LET piece == OptCall(Elem(Split(whatHappened, fullMatch), 2),
                         LAMBDA x : Elem(SplitStr(x, << Bold >>), 1))
    IN  OptCall(piece, LAMBDA x : Val(Substring(Trim(x), FightDescriptionMax)))

\* line 414: ... || ''
OrEmptyCut(x) ==
    IF x.def /\ x.v.toks # << >> THEN x.v ELSE [toks |-> << >>, cut |-> 0]

FightDescription(fullMatch) == OrEmptyCut(FightDescriptionChain(fullMatch))

\* lines 400-415: the record pushed for one match of fightRegex
\* lines 411-412: goldMatch ? goldMatch[1] : 'N/A'
SwingIn(swings, match) == IF match.found THEN Group(swings, match, 1) ELSE NA

\* line 406: impactMatch ? impactMatch[1].trim() : 'High'
ImpactIn(fullMatch, impactMatch) ==
    IF impactMatch.found THEN Trim(Group(fullMatch, impactMatch, 1))
    ELSE << "High" >>

FightOf(text, m) ==
    [title |-> Trim(Group(text, m, 1)),
     timestamp |-> Trim(Group(text, m, 2)),
     goldSwing |-> SwingIn(Group(text, m, 3), Match(goldRegex, Group(text, m, 3))),
     xpSwing |-> SwingIn(Group(text, m, 3), Match(xpRegex, Group(text, m, 3))),
     impact |-> StripDots(ImpactIn(Whole(text, m),
                                   Match(impactRegex, Whole(text, m)))),
     description |-> FightDescription(Whole(text, m))]

\* line 395: `const criticalFights = []`
NewCriticalFights == << >>

\* lines 398-416
FightsOf(text, ms) ==
    NewCriticalFights \o [k \in 1..Len(ms) |-> FightOf(text, ms[k])]

CriticalFights(text) ==
    FightsOf(text, ExecAll(fightRegex, text, FreshLastIndex + 1))

EmphasizedName == << L(Bold), Grp(1, Lazy1(NotStar)), L(Bold) >>

\* lines 422-426
impactfulPatterns ==
    << Cat(<< L("most impactful"), L("Player"), Star(NotColon), L(Colon),
              Star(NotStar) >> \o EmphasizedName),
       Cat(<< L("most impactful"), Star(NotColon), L("was"), Star(NotStar) >>
           \o EmphasizedName),
       Cat(EmphasizedName \o << Lazy(NotDot), L("most impactful") >>) >>

Null == [def |-> FALSE, v |-> << >>]

\* line 432: content.split(/Most Impactful Player/i)[1]?.split('\n\n')[0]
ImpactfulDescChain(text) ==
    OptCall(Elem(SplitStr(text, << "most impactful", "Player" >>), 2),
            LAMBDA x : Elem(SplitStr(x, << NL, NL >>), 1))

\* line 432: ... || ''
ImpactfulDesc(text) == OrEmpty(ImpactfulDescChain(text))

RECURSIVE FirstImpactful(_, _)
RECURSIVE ImpactfulOr(_, _, _)
\* lines 428-435
FirstImpactful(text, i) ==
    IF i > Len(impactfulPatterns) THEN [player |-> Null, desc |-> << >>]
    ELSE ImpactfulOr(text, i, Match(impactfulPatterns[i], text))

\* lines 429-434: pattern i has given match
ImpactfulOr(text, i, match) ==
    IF match.found
    THEN [player |-> [def |-> TRUE, v |-> Trim(Group(text, match, 1))],
          desc |-> ImpactfulDesc(text)]
    ELSE FirstImpactful(text, i + 1)

\* a property access on undefined ends parseTeamfightContent in a TypeError
FightsThrow(text, ms) ==
    \E k \in 1..Len(ms) : FightDescriptionChain(Whole(text, ms[k])).threw

TeamfightThrows(text) ==
    \/ FightsThrow(text, ExecAll(fightRegex, text, FreshLastIndex + 1))
    \/ /\ FirstImpactful(text, 1).player.def
       /\ ImpactfulDescChain(text).threw

\* lines 389-392: the Radiant entry first, the Dire entry second
winRateData(team1Wins, team2Wins) ==
    << [name |-> "Radiant", value |-> team1Wins, color |-> "#92cc41"],
       [name |-> "Dire", value |-> team2Wins, color |-> "#c23c2a"] >>

\* lines 437-443
TeamfightData(totalFights, team1Wins, team2Wins, criticalFights, imp) ==
    [totalFights |-> totalFights,
     winRateData |-> winRateData(team1Wins, team2Wins),
     criticalFights |-> criticalFights,
     impactfulPlayer |-> imp.player,
     impactfulPlayerDesc |-> imp.desc]

parseTeamfightContent(text) ==
    TeamfightData(FirstTotal(text, 1), WinsOf(team1WinRegex, text),
                  WinsOf(team2WinRegex, text), CriticalFights(text),
                  FirstImpactful(text, 1))

(***************************************************************************)
(* parsePlayerContent                                                      *)
(***************************************************************************)
\* \d+,?\d* in parentheses: a damage number
DamageNumber == Tok(DamageToks \cup NumToks)
\* \d+,?\d+ : a number of two digits or more; inside a longer lexeme it is
\* that lexeme's first such run of digits
TwoDigitToks == DamageToks \cup {"12", "10/2/5"} \cup PctToks \cup {"+5,000", "-3,200"}
TwoDigits(tok) ==
    CASE tok = "10/2/5" -> "10"
      [] tok = "85%" -> "85"
      [] tok = "72.5%" -> "72"
      [] tok = "+5,000" -> "5,000"
      [] tok = "-3,200" -> "3,200"
      [] OTHER -> tok

\* lines 451-455
mvpPatterns ==
    << Cat(PlayerHead \o
           << Lazy(AnyTok), Alt(<< L("is the"), L("candidate is") >>),
              Lazy(AnyTok), L("MVP"), Lazy(AnyTok), L("KDA"), Star(NotLP), L(LP),
              Grp(3, Tok(KdaToks)), L(RP), Lazy(AnyTok), L("Hero Damage"),
              Star(NotLP), L(LP), Grp(4, DamageNumber), L(RP), Lazy(AnyTok),
              L("Tower Damage"), Star(NotLP), L(LP), Grp(5, DamageNumber),
              L(RP) >>),
       Cat(<< L("MVP"), Star(NotColon), L(Colon), Star(NotStar) >> \o PlayerHead
           \o << Lazy(AnyTok), Grp(3, Tok(KdaToks)), Lazy(AnyTok),
                 Grp(4, Tok(TwoDigitToks)), Lazy(AnyTok),
                 Grp(5, Tok(TwoDigitToks)) >>),
       Cat(PlayerHead \o
           << Lazy(AnyTok), L("MVP"), Lazy(AnyTok), Grp(3, Tok(KdaToks)) >>) >>

\* /MVP[^:]*:/
mvpLabel == Cat(<< L("MVP"), Star(NotColon), L(Colon) >>)

\* line 466: content.split(/MVP[^:]*:/)[1]?.split('\n\n')[0]
MvpDescriptionChain(text) ==
    OptCall(Elem(Split(mvpLabel, text), 2),
            LAMBDA x : Elem(SplitStr(x, << NL, NL >>), 1))

\* match[g] || 'N/A', the number read out of a longer lexeme where need be
GroupOrNA(text, m, g) ==
    IF HasGroup(m, g) THEN << TwoDigits(Group(text, m, g)[1]) >> ELSE NA

\* the record with name and hero the other way round
MvpOfNameFirst(text, m) ==
    [hero |-> Trim(Group(text, m, 2)),
     name |-> Trim(Group(text, m, 1)),
     kda |-> IF HasGroup(m, 3) THEN Group(text, m, 3) ELSE NA,
     heroDamage |-> GroupOrNA(text, m, 4),
     towerDamage |-> GroupOrNA(text, m, 5),
     description |-> OrEmpty(MvpDescriptionChain(text))]

\* lines 460-467
MvpOf(text, m) ==
    [hero |-> Trim(Group(text, m, 1)),
     name |-> Trim(Group(text, m, 2)),
     kda |-> IF HasGroup(m, 3) THEN Group(text, m, 3) ELSE NA,
     heroDamage |-> GroupOrNA(text, m, 4),
     towerDamage |-> GroupOrNA(text, m, 5),
     description |-> OrEmpty(MvpDescriptionChain(text))]

RECURSIVE FirstMvp(_, _)
RECURSIVE MvpOr(_, _, _)
\* lines 457-470: << >> stands for null
FirstMvp(text, i) ==
    IF i > Len(mvpPatterns) THEN << >>
    ELSE MvpOr(text, i, Match(mvpPatterns[i], text))

\* lines 458-469: pattern i has given match
MvpOr(text, i, match) ==
    IF match.found THEN << MvpOf(text, match) >> ELSE FirstMvp(text, i + 1)

RadiantHeading == << Bold, "Radiant", "Team", "Performance" >>
DireHeading == << Bold, "Dire", "Team", "Performance" >>
ComparisonHeading == << Bold, "Team", "Performance", "Comparison" >>
radiantLabel == Cat(<< L("Radiant"), Star(NotColon), L(Colon) >>)  \* /Radiant[^:]*:/
direLabel == Cat(<< L("Dire"), Star(NotColon), L(Colon) >>)        \* /Dire[^:]*:/
\* /\*\*(?:Standout|Team Performance Comparison)/
direEnd ==
    Cat(<< L(Bold), Alt(<< L("Standout"),
                           Str(<< "Team", "Performance", "Comparison" >>) >>) >>)
\* /\*\*(?:Standout|Summary)/
direEndLoose == Cat(<< L(Bold), Alt(<< L("Standout"), L("Summary") >>) >>)

\* the Radiant section running on to the end of the text
RadiantSectionToEnd(text) ==
    IF Includes(text, RadiantHeading)
    THEN Elem(SplitStr(text, RadiantHeading), 2)
    ELSE IF Includes(text, << "Radiant" >>)
    THEN Elem(Split(radiantLabel, text), 2)
    ELSE Val(<< >>)

\* lines 473-479, before `|| ''`
RadiantSectionChain(text) ==
    IF Includes(text, RadiantHeading)
    THEN OptCall(Elem(SplitStr(text, RadiantHeading), 2),
                 LAMBDA x : Elem(SplitStr(x, DireHeading), 1))
    ELSE IF Includes(text, << "Radiant" >>)
    THEN OptCall(Elem(Split(radiantLabel, text), 2),
                 LAMBDA x : Elem(Split(direLabel, x), 1))
    ELSE Val(<< >>)

\* the Dire section falling back on the whole text
DireSectionOrAll(text) ==
    IF Includes(text, DireHeading)
    THEN OptCall(Elem(SplitStr(text, DireHeading), 2),
                 LAMBDA x : Elem(Split(direEnd, x), 1))
    ELSE IF Includes(text, << "Dire" >>)
    THEN OptCall(Elem(Split(direLabel, text), 2),
                 LAMBDA x : Elem(Split(direEndLoose, x), 1))
    ELSE Val(text)

\* lines 483-488, before `|| ''`
DireSectionChain(text) ==
    IF Includes(text, DireHeading)
    THEN OptCall(Elem(SplitStr(text, DireHeading), 2),
                 LAMBDA x : Elem(Split(direEnd, x), 1))
    ELSE IF Includes(text, << "Dire" >>)
    THEN OptCall(Elem(Split(direLabel, text), 2),
                 LAMBDA x : Elem(Split(direEndLoose, x), 1))
    ELSE Val(<< >>)

RadiantSection(text) == OrEmpty(RadiantSectionChain(text))
DireSection(text) == OrEmpty(DireSectionChain(text))

\* line 492
Either(a, b) == IF OrEmpty(a) # << >> THEN a.v ELSE b

Summary(text) ==
    Either(Elem(SplitStr(text, ComparisonHeading), 2),
           OrEmpty(Elem(SplitStr(text, << "Standout", "Performances" >>), 2)))

\* a property access on undefined ends parsePlayerContent in a TypeError
PlayerContentThrows(text) ==
    \/ FirstMvp(text, 1) # << >> /\ MvpDescriptionChain(text).threw
    \/ RadiantSectionChain(text).threw
    \/ DireSectionChain(text).threw

parsePlayerContent(text) ==
    [mvp |-> FirstMvp(text, 1),
     radiantPlayers |-> parseTeamPlayers(RadiantSection(text)),
     direPlayers |-> parseTeamPlayers(DireSection(text)),
     summary |-> Summary(text)]

(***************************************************************************)
(* Roster sections: up to MaxBlocks player blocks, each a head             *)
(* **X (Y)** followed by one of the block bodies below                      *)
(***************************************************************************)
MaxBlocks == 2

HeroAt(i) ==
    CASE i = 1 -> "Miracle-" [] i = 2 -> "Topson" [] i = 3 -> "Ana"
      [] i = 4 -> "Ceb" [] OTHER -> "Jerax"
NameAt(i) ==
    CASE i = 1 -> "Invoker" [] i = 2 -> "Pudge" [] i = 3 -> "Io"
      [] i = 4 -> "Axe" [] OTHER -> "Tiny"
KdaAt(i) == CASE i = 1 -> "10/2/5" [] i = 2 -> "3/7/1" [] OTHER -> "0/0/9"
RatingAt(i) ==
    CASE i = 1 -> << "Exceptional" >>
      [] i = 2 -> << BelowTok, "Average" >>
      [] OTHER -> << "Good" >>

BlockKinds == {"ovK", "ov", "pfK", "pf", "bareK", "bare", "noneK", "none"}

BlockBody(kind, i) ==
    CASE kind = "ovK" ->
            << "text", KdaAt(i), "text", "Overall ", "Performance", Colon, Bold >>
            \o RatingAt(i) \o << Bold, NL >>
      [] kind = "ov" ->
            << "text", "Overall ", "Performance", Colon, Bold >>
            \o RatingAt(i) \o << Bold, NL >>
      [] kind = "pfK" ->
            << KdaAt(i), "Performance", Colon, Bold >> \o RatingAt(i)
            \o << Bold, NL >>
      [] kind = "pf" ->
            << "text", "Performance", Colon, Bold >> \o RatingAt(i)
            \o << Bold, NL >>
      [] kind = "bareK" -> << "text", KdaAt(i), "text" >> \o RatingAt(i) \o << NL >>
      [] kind = "bare" -> << "text" >> \o RatingAt(i) \o << NL >>
      [] kind = "noneK" -> << KdaAt(i), "text", NL >>
      [] kind = "none" -> << "text", NL >>

Block(kind, i) ==
    << Bold, HeroAt(i), LP, NameAt(i), RP, Bold >> \o BlockBody(kind, i)

RECURSIVE Blocks(_, _)
\* the text of the blocks of kinds ks, numbered from i
Blocks(ks, i) ==
    IF ks = << >> THEN << >>
    ELSE Block(Head(ks), i) \o Blocks(Tail(ks), i + 1)

KindSeqs == UNION {[1..n -> BlockKinds] : n \in 0..MaxBlocks}

\* what is left of a heading in front of the first block
SectionLeads == {<< >>, << Bold, NL >>}

Sections == {lead \o Blocks(ks, 1) : lead \in SectionLeads, ks \in KindSeqs}

(***************************************************************************)
(* Values before any call                                                  *)
(***************************************************************************)
NoTeamfightData ==
    [totalFights |-> 0, winRateData |-> winRateData(0, 0),
     criticalFights |-> << >>, impactfulPlayer |-> Null,
     impactfulPlayerDesc |-> << >>]
NoPlayerData ==
    [mvp |-> << >>, radiantPlayers |-> << >>, direPlayers |-> << >>,
     summary |-> << >>]
NoneSeen == [timeline |-> {}, teamfight |-> {}, player |-> {}, roster |-> {}]
NoLastIndex == [fight |-> 0, player |-> << 0, 0, 0 >>]
NullAnalysis ==
    [isNull |-> TRUE, match_id |-> 0, sections |-> FALSE, metadata |-> FALSE]

ExtractorsIdle ==
    /\ called = "none"
    /\ content = << >>
    /\ events = << >>
    /\ teamfightData = NoTeamfightData
    /\ playerData = NoPlayerData
    /\ section = << >>
    /\ players = << >>
    /\ ran = {}
    /\ threw = FALSE
    /\ lastIndex = NoLastIndex
    /\ seen = NoneSeen
    /\ again = FALSE
    /\ calls = 0

\* no getMatchAnalysis call has settled
NoneSettled == [id |-> 0, n |-> 0]

DashboardIdle ==
    /\ matchId = 0
    /\ analysis = NullAnalysis
    /\ loading = TRUE
    /\ error = ""
    /\ pending = {}
    /\ fetches = 0
    /\ outcome = "none"
    /\ settled = NoneSettled

\* no sendMessage call has settled
NoChatResult ==
    [kind |-> "none", message |-> << >>, history |-> << >>, data |-> << >>,
     error |-> ""]

\* App.jsx lines 25-26 and ChatInput.jsx line 5: the state after the first
\* render of the chat
ChatIdle ==
    /\ messages = << >>
    /\ isLoading = FALSE
    /\ input = << >>
    /\ inFlight = {}
    /\ sends = 0
    /\ chatResult = NoChatResult

(***************************************************************************)
(* The extractor calls                                                     *)
(***************************************************************************)
\* lastIndex of the three player patterns and of fightRegex after their loops
PlayerLastIndex == [i \in 1..3 |-> LastIndexAfterNull]

\* parseTeamPlayers(section) returns: r holds its players and the patterns run
ReturnPlayers(r) ==
    /\ players' = r.players
    /\ ran' = r.ran
    /\ seen' = [seen EXCEPT !.roster = @ \cup {<< section, r.players >>}]

CallParseTeamPlayers ==
    /\ ReturnPlayers(PlayerLoop(section, 1, NewPlayers, {}))
    /\ again' = (\E e \in seen.roster : e[1] = section)
    /\ lastIndex' = [lastIndex EXCEPT !.player = PlayerLastIndex]
    /\ called' = "parseTeamPlayers"
    /\ threw' = FALSE
    /\ calls' = calls + 1
    /\ UNCHANGED << content, events, teamfightData, playerData, section >>
    /\ UNCHANGED << dashboardVars, chatVars >>

ReturnEvents(r) ==
    /\ events' = r
    /\ seen' = [seen EXCEPT !.timeline = @ \cup {<< content, r >>}]

CallExtractTimelineEvents ==
    /\ ReturnEvents(extractTimelineEvents(content))
    /\ again' = (\E e \in seen.timeline : e[1] = content)
    /\ called' = "extractTimelineEvents"
    /\ threw' = FALSE
    /\ calls' = calls + 1
    /\ UNCHANGED << content, teamfightData, playerData, section, players, ran,
                    lastIndex >>
    /\ UNCHANGED << dashboardVars, chatVars >>

ReturnTeamfightData(r) ==
    /\ teamfightData' = r
    /\ seen' = [seen EXCEPT !.teamfight = @ \cup {<< content, r >>}]

CallParseTeamfightContent ==
    /\ ReturnTeamfightData(parseTeamfightContent(content))
    /\ again' = (\E e \in seen.teamfight : e[1] = content)
    /\ lastIndex' = [lastIndex EXCEPT !.fight = LastIndexAfterNull]
    /\ called' = "parseTeamfightContent"
    /\ threw' = TeamfightThrows(content)
    /\ calls' = calls + 1
    /\ UNCHANGED << content, events, playerData, section, players, ran >>
    /\ UNCHANGED << dashboardVars, chatVars >>

ReturnPlayerData(r) ==
    /\ playerData' = r
    /\ seen' = [seen EXCEPT !.player = @ \cup {<< content, r >>}]

CallParsePlayerContent ==
    /\ ReturnPlayerData(parsePlayerContent(content))
    /\ again' = (\E e \in seen.player : e[1] = content)
    /\ lastIndex' = [lastIndex EXCEPT !.player = PlayerLastIndex]
    /\ called' = "parsePlayerContent"
    /\ threw' = PlayerContentThrows(content)
    /\ calls' = calls + 1
    /\ UNCHANGED << content, events, teamfightData, section, players, ran >>
    /\ UNCHANGED << dashboardVars, chatVars >>

(***************************************************************************)
(* parseTeamPlayers on a roster section                                    *)
(***************************************************************************)
InitPlayers ==
    /\ called = "none"
    /\ content = << >>
    /\ events = << >>
    /\ teamfightData = NoTeamfightData
    /\ playerData = NoPlayerData
    /\ section \in Sections
    /\ players = << >>
    /\ ran = {}
    /\ threw = FALSE
    /\ lastIndex = NoLastIndex
    /\ seen = NoneSeen
    /\ again = FALSE
    /\ calls = 0
    /\ DashboardIdle
    /\ ChatIdle

NextPlayers == calls = 0 /\ CallParseTeamPlayers

SpecPlayers == InitPlayers /\ [][NextPlayers]_vars

(***************************************************************************)
(* extractTimelineEvents on an overview text: up to MaxSentences sentences, *)
(* the times of the text numbered in order of appearance                   *)
(***************************************************************************)
MaxSentences == 3

SentenceKinds == {"k1", "k2", "k5", "t", "k", "w", "long"}

KeywordAt(i) ==
    CASE i = 1 -> "tower" [] i = 2 -> "roshan" [] i = 3 -> "barracks"
      [] OTHER -> "first blood"

\* how many times a sentence of this kind mentions
TimesIn(kind) ==
    CASE kind = "k1" -> 1 [] kind = "k2" -> 2 [] kind = "k5" -> 5
      [] kind = "t" -> 1 [] kind = "long" -> 1 [] OTHER -> 0

\* the i-th sentence, its times numbered from n
Sentence(kind, i, n) ==
    CASE kind = "k1" -> << KeywordAt(i), TimeSeq[n] >>
      [] kind = "k2" -> << TimeSeq[n], KeywordAt(i), TimeSeq[n + 1] >>
      [] kind = "k5" ->
            << KeywordAt(i), TimeSeq[n], TimeSeq[n + 1], TimeSeq[n + 2],
               TimeSeq[n + 3], TimeSeq[n + 4] >>
      [] kind = "t" -> << "text", TimeSeq[n] >>
      [] kind = "k" -> << NL, KeywordAt(i), "text" >>
      [] kind = "w" -> << "text" >>
      [] kind = "long" -> << "text", "text", KeywordAt(i), TimeSeq[n], "text" >>

RECURSIVE Sentences(_, _, _)
Sentences(ks, i, n) ==
    IF ks = << >> THEN << >>
    ELSE Sentence(Head(ks), i, n) \o << IF i % 2 = 1 THEN Dot ELSE Bang >>
         \o Sentences(Tail(ks), i + 1, n + TimesIn(Head(ks)))

OverviewTexts ==
    {Sentences(ks, 1, 1) : ks \in UNION {[1..n -> SentenceKinds] : n \in 0..MaxSentences}}

InitTimeline ==
    /\ called = "none"
    /\ content \in OverviewTexts
    /\ events = << >>
    /\ teamfightData = NoTeamfightData
    /\ playerData = NoPlayerData
    /\ section = << >>
    /\ players = << >>
    /\ ran = {}
    /\ threw = FALSE
    /\ lastIndex = NoLastIndex
    /\ seen = NoneSeen
    /\ again = FALSE
    /\ calls = 0
    /\ DashboardIdle
    /\ ChatIdle

NextTimeline == calls = 0 /\ CallExtractTimelineEvents

SpecTimeline == InitTimeline /\ [][NextTimeline]_vars

(***************************************************************************)
(* parseTeamfightContent on a teamfights text of up to MaxPhrases phrases  *)
(***************************************************************************)
MaxPhrases == 2

NumAt(i) == CASE i % 3 = 1 -> "12" [] i % 3 = 2 -> "7" [] OTHER -> "3"

PhraseKinds == {"t1", "t2", "t3", "t4", "t4a", "rw", "dw", "r", "d", "rc",
                "fight", "imp", "w"}

Phrase(kind, i) ==
    CASE kind = "t1" -> << "total of", Bold, NumAt(i), "teamfights", Bold, Dot >>
      [] kind = "t2" -> << Bold, NumAt(i), "teamfights", Bold, Dot >>
      [] kind = "t3" -> << NumAt(i), "teamfights", "in total", Dot >>
      [] kind = "t4" -> << "featured", NumAt(i), "teamfights", Dot >>
      [] kind = "t4a" -> << "featured", "a", "total of", NumAt(i), "teamfight", Dot >>
      [] kind = "rw" -> << "Radiant", "text", "Wins", Colon, NumAt(i), NL >>
      [] kind = "dw" -> << "Dire", "Wins", Colon, NL, NumAt(i), NL >>
      [] kind = "r" -> << "Radiant", "text", Dot >>
      [] kind = "d" -> << "Dire", "text", Dot >>
      [] kind = "rc" -> << "Radiant", Colon, "text", NL >>
      [] kind = "fight" ->
            << Hash, "Critical Teamfight", NumAt(i), Colon, "Epic", "text", NL,
               Bold, "Timestamp", Colon, Bold, "text", LP, TimeSeq[i], RP, NL,
               Bold, "Gold and XP Swing", Colon, Bold, "+5,000", "gold",
               "-3,200", "XP", NL,
               Bold, "What happened", Colon, Bold, "text", NL >>
      [] kind = "imp" ->
            << "most impactful", "Player", Colon, Bold, HeroAt(i), Bold, "text",
               NL, NL >>
      [] kind = "w" -> << "text", NL >>

RECURSIVE Phrases(_, _)
Phrases(ks, i) ==
    IF ks = << >> THEN << >> ELSE Phrase(Head(ks), i) \o Phrases(Tail(ks), i + 1)

TeamfightTexts ==
    {Phrases(ks, 1) : ks \in UNION {[1..n -> PhraseKinds] : n \in 0..MaxPhrases}}

InitTeamfight ==
    /\ called = "none"
    /\ content \in TeamfightTexts
    /\ events = << >>
    /\ teamfightData = NoTeamfightData
    /\ playerData = NoPlayerData
    /\ section = << >>
    /\ players = << >>
    /\ ran = {}
    /\ threw = FALSE
    /\ lastIndex = NoLastIndex
    /\ seen = NoneSeen
    /\ again = FALSE
    /\ calls = 0
    /\ DashboardIdle
    /\ ChatIdle

NextTeamfight == calls = 0 /\ CallParseTeamfightContent

SpecTeamfight == InitTeamfight /\ [][NextTeamfight]_vars

(***************************************************************************)
(* parsePlayerContent on a players text of up to MaxParts parts            *)
(***************************************************************************)
MaxParts == 3

PartKinds == {"radH", "radHB", "direH", "direHB", "standH", "blkK"}

Part(kind, i) ==
    CASE kind = "radH" -> RadiantHeading \o << Bold, NL >>
      [] kind = "direH" -> DireHeading \o << Bold, NL >>
      [] kind = "radHB" -> RadiantHeading \o << Bold, NL >> \o Block("ovK", i)
      [] kind = "direHB" -> DireHeading \o << Bold, NL >> \o Block("ovK", i)
      [] kind = "standH" -> << Bold, "Standout", "Performances", Bold, NL, "text", NL >>
      [] kind = "blkK" -> Block("ovK", i)
      [] kind = "blk0" -> Block("none", i)
      [] kind = "mvp" ->
            << "MVP", Colon, Bold, HeroAt(i), LP, NameAt(i), RP, Bold, KdaAt(i),
               "25,000", "3,100", NL, NL >>
      [] kind = "w" -> << "text", NL >>

RECURSIVE Parts(_, _)
Parts(ks, i) ==
    IF ks = << >> THEN << >> ELSE Part(Head(ks), i) \o Parts(Tail(ks), i + 1)

PlayerTexts ==
    {Parts(ks, 1) : ks \in UNION {[1..n -> PartKinds] : n \in 0..MaxParts}}

InitRoster ==
    /\ called = "none"
    /\ content \in PlayerTexts
    /\ events = << >>
    /\ teamfightData = NoTeamfightData
    /\ playerData = NoPlayerData
    /\ section = << >>
    /\ players = << >>
    /\ ran = {}
    /\ threw = FALSE
    /\ lastIndex = NoLastIndex
    /\ seen = NoneSeen
    /\ again = FALSE
    /\ calls = 0
    /\ DashboardIdle
    /\ ChatIdle

NextRoster == calls = 0 /\ CallParsePlayerContent

SpecRoster == InitRoster /\ [][NextRoster]_vars

(***************************************************************************)
(* The three extractors on one report text of up to MaxPieces pieces, with *)
(* and without the phrases the extractors look for                         *)
(***************************************************************************)
MaxPieces == 2

PieceKinds == {"plain", "time", "kw", "num", "t2", "rw", "fight", "imp",
               "radHB", "standH", "blkK", "mvp"}

Piece(kind, i) ==
    CASE kind = "plain" -> << "text", Dot, NL >>
      [] kind = "time" -> << "text", TimeSeq[i], Dot, NL >>
      [] kind = "kw" -> << KeywordAt(i), TimeSeq[i], Dot, NL >>
      [] kind = "num" -> << NumAt(i), "gold", Dot, NL >>
      [] kind \in {"t2", "rw", "fight", "imp"} -> Phrase(kind, i)
      [] OTHER -> Part(kind, i)

RECURSIVE Pieces(_, _)
Pieces(ks, i) ==
    IF ks = << >> THEN << >> ELSE Piece(Head(ks), i) \o Pieces(Tail(ks), i + 1)

ReportTexts ==
    {Pieces(ks, 1) : ks \in UNION {[1..n -> PieceKinds] : n \in 0..MaxPieces}}

InitDefaults ==
    /\ called = "none"
    /\ content \in ReportTexts
    /\ events = << >>
    /\ teamfightData = NoTeamfightData
    /\ playerData = NoPlayerData
    /\ section = << >>
    /\ players = << >>
    /\ ran = {}
    /\ threw = FALSE
    /\ lastIndex = NoLastIndex
    /\ seen = NoneSeen
    /\ again = FALSE
    /\ calls = 0
    /\ DashboardIdle
    /\ ChatIdle

NextDefaults ==
    /\ calls = 0
    /\ \/ CallExtractTimelineEvents
       \/ CallParseTeamfightContent
       \/ CallParsePlayerContent

SpecDefaults == InitDefaults /\ [][NextDefaults]_vars

(***************************************************************************)
(* Repeated and interleaved calls: MatchDashboard renders again and again, *)
(* each render calling the extractors on the content of the analysis shown *)
(***************************************************************************)
MaxCalls == 4

RichTexts ==
    { << "tower", "1:00", Dot >> \o Phrase("t1", 1) \o Phrase("fight", 1)
         \o Part("radHB", 1),
      << "roshan", "2:00", "3:00", Bang >> \o Phrase("imp", 2)
         \o Part("direHB", 2) \o Part("mvp", 3) }

InitRepeat ==
    /\ called = "none"
    /\ content \in RichTexts
    /\ events = << >>
    /\ teamfightData = NoTeamfightData
    /\ playerData = NoPlayerData
    /\ section = << >>
    /\ players = << >>
    /\ ran = {}
    /\ threw = FALSE
    /\ lastIndex = NoLastIndex
    /\ seen = NoneSeen
    /\ again = FALSE
    /\ calls = 0
    /\ DashboardIdle
    /\ ChatIdle

\* another analysis is shown: the next calls are given its text
ShowText(t) ==
    /\ t # content
    /\ content' = t
    /\ UNCHANGED << called, events, teamfightData, playerData, section, players,
                    ran, threw, lastIndex, seen, again, calls >>
    /\ UNCHANGED << dashboardVars, chatVars >>

NextRepeat ==
    \/ \E t \in RichTexts : ShowText(t)
    \/ calls < MaxCalls /\ CallExtractTimelineEvents
    \/ calls < MaxCalls /\ CallParseTeamfightContent
    \/ calls < MaxCalls /\ CallParsePlayerContent

SpecRepeat == InitRepeat /\ [][NextRepeat]_vars

(***************************************************************************)
(* The player blocks of a section, as the claims speak of them             *)
(***************************************************************************)
HeadAt(t, p) ==
    /\ p + 5 <= Len(t)
    /\ t[p] = Bold /\ t[p + 1] \in HeroToks /\ t[p + 2] = LP
    /\ t[p + 3] \in NameToks /\ t[p + 4] = RP /\ t[p + 5] = Bold

BlockStarts(t) == {p \in 1..Len(t) : HeadAt(t, p)}

BlockEnd(t, p) ==
    LET later == {q \in BlockStarts(t) : q > p}
    IN  IF later = {} THEN Len(t)
        ELSE (CHOOSE q \in later : \A q2 \in later : q <= q2) - 1

\* the body of the block whose head starts at p
BodyOf(t, p) == SubSeq(t, p + 6, BlockEnd(t, p))

HasKda(b) == \E i \in 1..Len(b) : b[i] \in KdaToks
KdaOf(b) == b[CHOOSE i \in 1..Len(b) : b[i] \in KdaToks /\ \A j \in 1..(i - 1) : b[j] \notin KdaToks]

\* how a block gives its rating
FormOf(b) ==
    IF Includes(b, << "Overall ", "Performance", Colon >>) THEN "overall"
    ELSE IF Includes(b, << "Performance", Colon >>) THEN "perf"
    ELSE IF \E i \in 1..Len(b) : b[i] \in RatingToks THEN "bare"
    ELSE "none"

\* the rating a block states: the emphasized text after its label, or its
\* bare rating word
RatingOf(b) ==
    IF FormOf(b) \in {"overall", "perf"}
    THEN LET c == IndexOf(b, << Colon, Bold >>, 1)
             d == IndexOf(b, << Bold >>, c + 2)
         IN  SubSeq(b, c + 2, d - 1)
    ELSE LET m == Match(RatingWord, b) IN Whole(b, m)

\* a block of the form **X (Y)** ... k/d/a ... R
Complete(b) ==
    /\ HasKda(b)
    /\ FormOf(b) # "none"
    /\ \E i, j \in 1..Len(b) : i < j /\ b[i] \in KdaToks /\ b[j] \in RatingToks

Called == called = "parseTeamPlayers"

Uniform(t) ==
    /\ BlockStarts(t) # {}
    /\ \A p \in BlockStarts(t) : Complete(BodyOf(t, p))
    /\ \A p, q \in BlockStarts(t) : FormOf(BodyOf(t, p)) = FormOf(BodyOf(t, q))

\* the p-th smallest element of a set of numbers
RECURSIVE Nth(_, _)
Nth(S, n) ==
    LET lo == CHOOSE x \in S : \A y \in S : x <= y
    IN  IF n = 1 THEN lo ELSE Nth(S \ {lo}, n - 1)

C2_NoRecordForBlockWithoutKda ==
    Called =>
        \A p \in BlockStarts(section) :
            ~HasKda(BodyOf(section, p)) =>
                \A k \in 1..Len(players) :
                    {players[k].hero, players[k].name}
                        # {<< section[p + 1] >>, << section[p + 3] >>}

\* C9: the patterns run are 1..k in order, every pattern before k added no
\* player, the roster is exactly what pattern k alone accepts, and the loop
\* went past k only if k added none
C9_FirstProducingPatternOnly ==
    Called =>
        \E k \in 1..Len(playerPatterns) :
            /\ ran = 1..k
            /\ \A j \in 1..(k - 1) : PlayersOfPattern(section, j) = << >>
            /\ players = PlayersOfPattern(section, k)
            /\ (k < Len(playerPatterns) => players # << >>)

\* pattern 1 matched a block but accepted no player (no K/D/A in its details),
\* so the next patterns ran and pattern 3 produced the roster
C9_Witness ==
    /\ Called
    /\ ExecAll(playerPatterns[1], section, 1) # << >>
    /\ ran = {1, 2, 3}
    /\ players # << >>

(***************************************************************************)
(* The timeline of an overview text, as the claims speak of it             *)
(***************************************************************************)
\* no sentence separator between positions p and q
SameSentence(t, p, q) ==
    \A j \in 1..Len(t) :
        ((p <= j /\ j <= q) \/ (q <= j /\ j <= p)) => t[j] \notin {Dot, Bang}

\* the positions of the times that stand in a sentence with a keyword
CoOccurrences(t) ==
    {p \in 1..Len(t) :
        /\ t[p] \in TimeToks
        /\ \E q \in 1..Len(t) : t[q] \in KeywordToks /\ SameSentence(t, p, q)}

\* C3: at most 10 events, the first min(n, 10) of the n keyword+time
\* co-occurrences of the text in order of appearance
C3_FirstTenInTextOrder ==
    called = "extractTimelineEvents" =>
        LET Q == CoOccurrences(content)
            n == Cardinality(Q)
        IN  /\ Len(events) <= 10
            /\ Len(events) = (IF n < 10 THEN n ELSE 10)
            /\ \A k \in 1..Len(events) : events[k].time = content[Nth(Q, k)]

\* a text with 15 co-occurrences has given exactly 10 events
C3_Witness ==
    /\ called = "extractTimelineEvents"
    /\ Cardinality(CoOccurrences(content)) = 15
    /\ Len(events) = 10
    /\ events[10].time = "10:00"

(***************************************************************************)
(* The fight count and the win counts, as the claims speak of them         *)
(***************************************************************************)
TotalOfPhraseAt(t, p) ==
    /\ p + 4 <= Len(t)
    /\ t[p] = "total of" /\ t[p + 1] = Bold /\ t[p + 2] \in NumToks
    /\ t[p + 3] \in {"teamfights", "teamfight"} /\ t[p + 4] = Bold

TotalOfPhrases(t) == {p \in 1..Len(t) : TotalOfPhraseAt(t, p)}

\* a looser count phrase: a number before "teamfights" that is not part of a
\* "total of **N teamfights**" phrase
LooserPhrases(t) ==
    {p \in 1..Len(t) :
        /\ p + 1 <= Len(t) /\ t[p] \in NumToks
        /\ t[p + 1] \in {"teamfights", "teamfight"}
        /\ ~(p > 2 /\ TotalOfPhraseAt(t, p - 2))}

\* C5: with a "total of **N teamfights**" phrase in the text, totalFights is
\* the N of the first such phrase whatever looser phrases stand before it; and
\* when no pattern of the list matches, totalFights is 0
C5_SpecificPatternWins ==
    called = "parseTeamfightContent" =>
        /\ TotalOfPhrases(content) # {} =>
              teamfightData.totalFights
                  = ParseInt(content[Nth(TotalOfPhrases(content), 1) + 2])
        /\ (\A i \in 1..Len(totalPatterns) : ~Match(totalPatterns[i], content).found)
              => teamfightData.totalFights = 0

\* "total of **7 teamfights**" stands after a looser phrase with another
\* number, and 7 was returned
C5_Witness ==
    /\ called = "parseTeamfightContent"
    /\ TotalOfPhrases(content) # {}
    /\ \E p \in LooserPhrases(content) :
          /\ p < Nth(TotalOfPhrases(content), 1)
          /\ content[p] # content[Nth(TotalOfPhrases(content), 1) + 2]
    /\ teamfightData.totalFights = 7

RadiantWords == {"Radiant", "Team 1"}
DireWords == {"Dire", "Team 2"}

\* a "Wins ...: N" label anchored on one of the words W: the word, then the
\* label with no colon and no team word in between, then the colon and N
WinsLabelAt(t, W, p) ==
    /\ t[p] \in W
    /\ \E q \in (p + 1)..Len(t), c \in (p + 2)..Len(t) :
          /\ q < c
          /\ t[q] \in {"Wins", "Win"}
          /\ t[c] = Colon
          /\ \A j \in (p + 1)..(c - 1) :
                t[j] \notin ({Colon} \cup RadiantWords \cup DireWords)
          /\ \E n \in (c + 1)..Len(t) :
                /\ t[n] \in NumToks
                /\ \A j \in (c + 1)..(n - 1) : t[j] = NL

HasWinsLabel(t, W) == \E p \in 1..Len(t) : WinsLabelAt(t, W, p)

\* C8 as stated: a side without a wins label of its own counts 0, wherever
\* the word naming it stands
C8_MissingSideCountsZero ==
    called = "parseTeamfightContent" =>
        /\ ~HasWinsLabel(content, RadiantWords) =>
              teamfightData.winRateData[1].value = 0
        /\ ~HasWinsLabel(content, DireWords) =>
              teamfightData.winRateData[2].value = 0

(***************************************************************************)
(* The roster spans of a players text, as the claims speak of them         *)
(***************************************************************************)
HeadingsAt(t, h) ==
    {p \in 1..Len(t) : p + Len(h) - 1 <= Len(t) /\ SubSeq(t, p, p + Len(h) - 1) = h}

BothHeadings(t) ==
    HeadingsAt(t, RadiantHeading) # {} /\ HeadingsAt(t, DireHeading) # {}

\* the record was made from the block whose head starts at p
FromBlock(t, rec, p) ==
    rec.hero = << t[p + 1] >> /\ rec.name = << t[p + 3] >>

\* C6 as stated: with both headings in the text, every Radiant record comes
\* from a block after a Radiant heading and before a Dire heading, none from
\* a block after the Dire heading or before the Radiant heading
C6_RadiantBetweenTheHeadings ==
    (called = "parsePlayerContent" /\ BothHeadings(content)) =>
        \A k \in 1..Len(playerData.radiantPlayers) :
            \E p \in BlockStarts(content) :
                /\ FromBlock(content, playerData.radiantPlayers[k], p)
                /\ \E r \in HeadingsAt(content, RadiantHeading) : r < p
                /\ \A d \in HeadingsAt(content, DireHeading) : p < d

\* where the Radiant span ends: the next heading of either team after the
\* first Radiant heading, or the end of the text
RadiantSpanEnd(t) ==
    LET r == Least(HeadingsAt(t, RadiantHeading))
        next == {q \in HeadingsAt(t, RadiantHeading) \cup HeadingsAt(t, DireHeading) : q > r}
    IN  IF next = {} THEN Len(t) + 1 ELSE Least(next)

\* C6 (amended): with both headings in the text, every Radiant record comes
\* from a block after the first Radiant heading and before the next heading
\* of either team that follows it (the end of the text when none follows)
C6_RadiantWithinItsSpan ==
    (called = "parsePlayerContent" /\ BothHeadings(content)) =>
        \A k \in 1..Len(playerData.radiantPlayers) :
            \E p \in BlockStarts(content) :
                /\ FromBlock(content, playerData.radiantPlayers[k], p)
                /\ Least(HeadingsAt(content, RadiantHeading)) < p
                /\ p < RadiantSpanEnd(content)

\* blocks stand before the Radiant heading, between the headings and after
\* the Dire heading, and only the one between them is in the Radiant roster
C6_Witness ==
    /\ called = "parsePlayerContent" /\ BothHeadings(content)
    /\ \E p \in BlockStarts(content) : p < Least(HeadingsAt(content, RadiantHeading))
    /\ \E p \in BlockStarts(content) : p > Least(HeadingsAt(content, DireHeading))
    /\ Least(HeadingsAt(content, RadiantHeading)) < Least(HeadingsAt(content, DireHeading))
    /\ Len(playerData.radiantPlayers) = 1
    /\ playerData.radiantPlayers[1].hero = << "Topson" >>

(***************************************************************************)
(* C4: defaults where nothing is found                                     *)
(***************************************************************************)
HasTok(t, S) == \E p \in 1..Len(t) : t[p] \in S

\* what each field is looked for by
TimelineAnchors == KeywordToks
TotalAnchors == {"teamfights", "teamfight"}
WinsAnchors == {"Wins", "Win"}
FightAnchors == {"Critical Teamfight"}
ImpactfulAnchors == {"most impactful"}
MvpAnchors == {"MVP"}
RadiantAnchors == {"Radiant"}
DireAnchors == {"Dire"}
SummaryAnchors == {"Comparison", "Standout"}
AllAnchors ==
    TimelineAnchors \cup TotalAnchors \cup WinsAnchors \cup FightAnchors
    \cup ImpactfulAnchors \cup MvpAnchors \cup RadiantAnchors \cup DireAnchors
    \cup SummaryAnchors

\* C4: an extractor never throws on a text that holds none of its fields'
\* anchor phrases, and every field whose anchor phrases the text does not hold
\* comes back as its default: no events; totalFights 0, Radiant and Dire wins
\* 0, no critical fights, impactfulPlayer null; mvp null, empty rosters, empty
\* summary
C4_DefaultsWithoutAnchors ==
    /\ called = "extractTimelineEvents" =>
          /\ ~threw
          /\ ~HasTok(content, TimelineAnchors) => events = << >>
    /\ called = "parseTeamfightContent" =>
          /\ ~HasTok(content, AllAnchors) => ~threw
          /\ ~HasTok(content, TotalAnchors) => teamfightData.totalFights = 0
          /\ ~HasTok(content, WinsAnchors) =>
                /\ teamfightData.winRateData[1].value = 0
                /\ teamfightData.winRateData[2].value = 0
          /\ ~HasTok(content, FightAnchors) => teamfightData.criticalFights = << >>
          /\ ~HasTok(content, ImpactfulAnchors) =>
                /\ teamfightData.impactfulPlayer = Null
                /\ teamfightData.impactfulPlayerDesc = << >>
    /\ called = "parsePlayerContent" =>
          /\ ~HasTok(content, AllAnchors) => ~threw
          /\ ~HasTok(content, MvpAnchors) => playerData.mvp = << >>
          /\ ~HasTok(content, RadiantAnchors) => playerData.radiantPlayers = << >>
          /\ ~HasTok(content, DireAnchors) => playerData.direPlayers = << >>
          /\ ~HasTok(content, SummaryAnchors) => playerData.summary = << >>

\* a text with a complete player block, a time and a number but no anchor
\* phrase at all went through parsePlayerContent and came back all defaults
C4_Witness ==
    /\ called = "parsePlayerContent"
    /\ ~HasTok(content, AllAnchors)
    /\ BlockStarts(content) # {}
    /\ HasTok(content, TimeToks \cup NumToks)
    /\ playerData = NoPlayerData
    /\ ~threw

(***************************************************************************)
(* C7: the same text gives the same result                                 *)
(***************************************************************************)
\* every result an extractor gave for one text is the same
SameResults(S) == \A a \in S : \A b \in S : a[1] = b[1] => a[2] = b[2]

MaxMatchId == 2
MaxFetches == 3

MatchIds == 1..MaxMatchId

\* what the promise of getMatchAnalysis(id) may resolve with: the analysis of
\* the match, an object that lacks sections, metadata or both, or null
Responses(id) ==
    {[isNull |-> FALSE, match_id |-> id, sections |-> s, metadata |-> m] :
        s \in BOOLEAN, m \in BOOLEAN} \cup {NullAnalysis}

\* err.message of what the promise of getMatchAnalysis may reject with
Messages == {"Failed to fetch", "HTTP error! status: 500"}

WellFormed(data) == ~data.isNull /\ data.sections /\ data.metadata

InitDashboard ==
    /\ ExtractorsIdle
    /\ ChatIdle
    /\ matchId \in MatchIds
    /\ analysis = NullAnalysis
    /\ loading = TRUE
    /\ error = ""
    /\ pending = {}
    /\ fetches = 0
    /\ outcome = "none"
    /\ settled = NoneSettled

\* lines 20-24: fetchAnalysis up to its await
fetchAnalysis(id) ==
    /\ loading' = TRUE
    /\ error' = ""
    /\ pending' = pending \cup {[id |-> id, n |-> fetches + 1]}
    /\ fetches' = fetches + 1
    /\ UNCHANGED << analysis, outcome, settled >>

\* lines 14-18: the effect after the first render
MountEffect ==
    /\ fetches = 0
    /\ fetchAnalysis(matchId)
    /\ UNCHANGED matchId
    /\ UNCHANGED << extractorVars, chatVars >>

\* the route's matchId changes and the effect runs again
ChangeMatch(id) ==
    /\ fetches > 0
    /\ fetches < MaxFetches
    /\ id # matchId
    /\ matchId' = id
    /\ fetchAnalysis(id)
    /\ UNCHANGED << extractorVars, chatVars >>

\* lines 24-29 and 32-34: the awaited promise resolves
FetchResolves(req, data) ==
    /\ req \in pending
    /\ pending' = pending \ {req}
    /\ analysis' = data
    /\ loading' = FALSE
    /\ outcome' = IF WellFormed(data) THEN "ok" ELSE "malformed"
    /\ settled' = req
    /\ UNCHANGED << matchId, error, fetches >>
    /\ UNCHANGED << extractorVars, chatVars >>

\* lines 30-34: the awaited promise rejects
FetchRejects(req, message) ==
    /\ req \in pending
    /\ pending' = pending \ {req}
    /\ error' = message
    /\ loading' = FALSE
    /\ outcome' = "failed"
    /\ settled' = req
    /\ UNCHANGED << matchId, analysis, fetches >>
    /\ UNCHANGED << extractorVars, chatVars >>

NextDashboard ==
    \/ MountEffect
    \/ \E id \in MatchIds : ChangeMatch(id)
    \/ \E req \in pending : \E data \in Responses(req.id) : FetchResolves(req, data)
    \/ \E req \in pending : \E message \in Messages : FetchRejects(req, message)

SpecDashboard == InitDashboard /\ [][NextDashboard]_vars

\* lines 37-78: what the component renders; reading sections.overview or
\* metadata.winner of an analysis that lacks them is a TypeError, and with no
\* error boundary the tree is unmounted
View ==
    IF loading THEN "loading"
    ELSE IF error # "" THEN "error"
    ELSE IF analysis.isNull THEN "blank"
    ELSE IF ~analysis.sections \/ ~analysis.metadata THEN "crashed"
    ELSE "dashboard"

(***************************************************************************)
(* C10: failures are shown as errors                                       *)
(***************************************************************************)
\* C10: once the fetches have settled, the last of them having failed or
\* brought a malformed response, the dashboard shows the error state: error
\* set, loading false, and neither the dashboard nor a blank or crashed render
C10_FailureShowsError ==
    (pending = {} /\ outcome \in {"failed", "malformed"}) =>
        /\ error # ""
        /\ ~loading
        /\ View = "error"

(***************************************************************************)
(* parseTeamPlayers on roster sections whose blocks carry efficiency        *)
(* phrases "X/min (Y%)"                                                     *)
(***************************************************************************)
EfficiencyWordAt(j) ==
    CASE j = 1 -> "gold" [] j = 2 -> "XP" [] j = 3 -> "experience" [] OTHER -> "KDA"
PctAt(j) == IF j % 2 = 1 THEN "85%" ELSE "72.5%"

\* the j-th efficiency phrase of a block
EfficiencyPhrase(j) == << EfficiencyWordAt(j), "/min", LP, PctAt(j), RP >>

RECURSIVE EfficiencyPhrases(_, _)
\* the phrases j..n, one after the other
EfficiencyPhrases(j, n) ==
    IF j > n THEN << >> ELSE EfficiencyPhrase(j) \o EfficiencyPhrases(j + 1, n)

HighlightKinds == {"ov0", "ov1", "ov2", "ov4", "ovLong", "ovPct", "ovAfter",
                   "bare0", "bare1"}

OverallLabel(i) ==
    << "Overall ", "Performance", Colon, Bold >> \o RatingAt(i) \o << Bold >>

HighlightBody(kind, i) ==
    CASE kind = "ov0" -> << KdaAt(i), "text" >> \o OverallLabel(i) \o << NL >>
      [] kind = "ov1" ->
            << KdaAt(i), "text" >> \o EfficiencyPhrases(1, 1) \o OverallLabel(i)
            \o << NL >>
      [] kind = "ov2" ->
            << KdaAt(i), "text" >> \o EfficiencyPhrases(1, 2) \o OverallLabel(i)
            \o << NL >>
      [] kind = "ov4" ->
            << KdaAt(i), "text" >> \o EfficiencyPhrases(1, 4) \o OverallLabel(i)
            \o << NL >>
      [] kind = "ovLong" ->
            << KdaAt(i), "text", "text", "text" >> \o OverallLabel(i) \o << NL >>
      [] kind = "ovPct" ->
            << KdaAt(i), "text", PctAt(i) >> \o OverallLabel(i) \o << NL >>
      [] kind = "ovAfter" ->
            << KdaAt(i), "text" >> \o OverallLabel(i) \o << "text" >>
            \o EfficiencyPhrases(1, 1) \o << NL >>
      [] kind = "bare0" -> << KdaAt(i), "text" >> \o RatingAt(i) \o << NL >>
      [] kind = "bare1" ->
            << KdaAt(i), "text" >> \o EfficiencyPhrases(1, 1) \o RatingAt(i)
            \o << NL >>

HighlightBlock(kind, i) ==
    << Bold, HeroAt(i), LP, NameAt(i), RP, Bold >> \o HighlightBody(kind, i)

RECURSIVE HighlightBlocks(_, _)
HighlightBlocks(ks, i) ==
    IF ks = << >> THEN << >>
    ELSE HighlightBlock(Head(ks), i) \o HighlightBlocks(Tail(ks), i + 1)

HighlightSections ==
    {HighlightBlocks(ks, 1) :
        ks \in UNION {[1..n -> HighlightKinds] : n \in 0..MaxBlocks}}

InitHighlights ==
    /\ called = "none"
    /\ content = << >>
    /\ events = << >>
    /\ teamfightData = NoTeamfightData
    /\ playerData = NoPlayerData
    /\ section \in HighlightSections
    /\ players = << >>
    /\ ran = {}
    /\ threw = FALSE
    /\ lastIndex = NoLastIndex
    /\ seen = NoneSeen
    /\ again = FALSE
    /\ calls = 0
    /\ DashboardIdle
    /\ ChatIdle

NextHighlights == calls = 0 /\ CallParseTeamPlayers

SpecHighlights == InitHighlights /\ [][NextHighlights]_vars

(***************************************************************************)
(* C11: the highlights of a player record                                  *)
(***************************************************************************)
\* where the phrases "/min (Y%)" of a block body stand
PhrasePositions(b) ==
    {q \in 1..Len(b) :
        /\ q + 3 <= Len(b)
        /\ b[q] = "/min" /\ b[q + 1] = LP /\ b[q + 2] \in PctToks /\ b[q + 3] = RP}

EndsWith(t, suffix) ==
    /\ Len(suffix) <= Len(t)
    /\ SubSeq(t, Len(t) - Len(suffix) + 1, Len(t)) = suffix

StartsWith(t, prefix) ==
    Len(prefix) <= Len(t) /\ SubSeq(t, 1, Len(prefix)) = prefix

\* the highlights h are what the claim states for a block of body b
HighlightsAsStated(h, b) ==
    LET Q == PhrasePositions(b)
        n == IF Cardinality(Q) < 3 THEN Cardinality(Q) ELSE 3
    IN  /\ 1 <= Len(h) /\ Len(h) <= 3
        /\ IF Q # {}
           THEN /\ Len(h) = n
                /\ \A j \in 1..n :
                      /\ h[j].tail = ""
                      /\ EndsWith(h[j].toks, SubSeq(b, Nth(Q, j), Nth(Q, j) + 3))
           ELSE /\ Len(h) = 1
                /\ h[1].tail = Ellipsis
                /\ TextWidth(h[1].toks) + h[1].cut <= 80
                /\ StartsWith(b, h[1].toks)

\* C11 as stated: every record has 1 to 3 highlights: the first three
\* "X/min (Y%)" phrases of its block in text order when the block has any,
\* else one entry of at most 80 characters of the block's detail text and an
\* ellipsis
C11_HighlightsFromPercentPhrases ==
    Called =>
        \A k \in 1..Len(players) :
            \A p \in BlockStarts(section) :
                FromBlock(section, players[k], p) =>
                    HighlightsAsStated(players[k].highlights, BodyOf(section, p))

(***************************************************************************)
(* parseTeamfightContent on a text with one critical-teamfight block, its   *)
(* lines in several orders, followed by a sentence on the most impactful    *)
(* player                                                                   *)
(***************************************************************************)
SwingKinds == {"both", "gold", "xp", "neither", "side"}

\* what the swing line says after its label
SwingValues(sw) ==
    CASE sw = "both" -> << "+5,000", "gold", "-3,200", "XP" >>
      [] sw = "gold" -> << "+5,000", "gold" >>
      [] sw = "xp" -> << "-3,200", "experience" >>
      [] sw = "neither" -> << "text" >>
      [] sw = "side" -> << "Radiant", Colon, "+5,000", "gold", "-3,200", "XP" >>

SwingLine(sw) ==
    << Bold, "Gold and XP Swing", Colon, Bold >> \o SwingValues(sw) \o << NL >>

ImpactKinds == {"dotted", "inner"}

\* the emphasized token after the Impact label
ImpactToken(ik) ==
    IF ik = "dotted" THEN << "Epic", Dot >> ELSE << "Epic", Dot, "text", Dot >>

ImpactLine(ik) ==
    << Bold, "Impact", Colon, Bold, Bold >> \o ImpactToken(ik) \o << Bold, NL >>

WhatLine == << Bold, "What happened", Colon, Bold, "text", NL >>

FightHead ==
    << Hash, "Critical Teamfight", "3", Colon, "Epic", "text", NL,
       Bold, "Timestamp", Colon, Bold, "text", LP, "1:00", RP, NL >>

\* the order of the lines after the timestamp: S the swing line, I the impact
\* line, W the "What happened" line
Layouts == {"S", "SW", "IS", "SI", "SWI", "ISW"}

FightLines(layout, sw, ik) ==
    CASE layout = "S" -> SwingLine(sw)
      [] layout = "SW" -> SwingLine(sw) \o WhatLine
      [] layout = "IS" -> ImpactLine(ik) \o SwingLine(sw)
      [] layout = "SI" -> SwingLine(sw) \o ImpactLine(ik)
      [] layout = "SWI" -> SwingLine(sw) \o WhatLine \o ImpactLine(ik)
      [] layout = "ISW" -> ImpactLine(ik) \o SwingLine(sw) \o WhatLine

FightBlocks ==
    {FightHead \o FightLines(layout, sw, ik) :
        layout \in Layouts, sw \in SwingKinds, ik \in ImpactKinds}

ImpactfulForms == {"label", "was", "lead", "none"}

\* the sentence on the most impactful player, in the form of each pattern
ImpactfulSentence(form) ==
    CASE form = "label" ->
            << "most impactful", "Player", Colon, Bold, "Ana", Bold, "text",
               NL, NL, "text", NL >>
      [] form = "was" ->
            << "most impactful", "text", "was", Bold, "Ana", Bold, "text",
               NL, NL, "text", NL >>
      [] form = "lead" ->
            << Bold, "Ana", Bold, "was", "most impactful", "text",
               NL, NL, "text", NL >>
      [] form = "none" -> << "text", NL >>

FightTexts ==
    {b \o ImpactfulSentence(form) :
        b \in FightBlocks \cup {<< >>}, form \in ImpactfulForms}

InitFights ==
    /\ called = "none"
    /\ content \in FightTexts
    /\ events = << >>
    /\ teamfightData = NoTeamfightData
    /\ playerData = NoPlayerData
    /\ section = << >>
    /\ players = << >>
    /\ ran = {}
    /\ threw = FALSE
    /\ lastIndex = NoLastIndex
    /\ seen = NoneSeen
    /\ again = FALSE
    /\ calls = 0
    /\ DashboardIdle
    /\ ChatIdle

NextFights == calls = 0 /\ CallParseTeamfightContent

SpecFights == InitFights /\ [][NextFights]_vars

(***************************************************************************)
(* C12, C13: the swings and the impact of a critical-teamfight block        *)
(***************************************************************************)
HasFightBlock(t) == HasTok(t, {"Critical Teamfight"})

\* the line from position p up to its line break
LineFrom(t, p) ==
    LET ends == {q \in p..Len(t) : t[q] = NL}
    IN  SubSeq(t, p, IF ends = {} THEN Len(t) ELSE Least(ends) - 1)

\* what the swing line says after its label
SwingLineOf(t) ==
    LineFrom(t, IndexOf(t, << "Gold and XP Swing", Colon, Bold >>, 1) + 3)

\* the number that stands before one of the words W in the line, or "N/A"
NumberBefore(line, W) ==
    LET at == {q \in 2..Len(line) :
                  line[q] \in W /\ line[q - 1] \in SwingToks \cup NumToks \cup DamageToks}
    IN  IF at = {} THEN NA ELSE << line[Least(at) - 1] >>

\* C12 as stated: the block gives one record, goldSwing the number before
\* "gold" on the swing line or "N/A", xpSwing the number before "XP" or
\* "experience" or "N/A", each whatever the other is
C12_SwingsReadIndependently ==
    (called = "parseTeamfightContent" /\ HasFightBlock(content)) =>
        /\ Len(teamfightData.criticalFights) = 1
        /\ teamfightData.criticalFights[1].goldSwing
              = NumberBefore(SwingLineOf(content), {"gold"})
        /\ teamfightData.criticalFights[1].xpSwing
              = NumberBefore(SwingLineOf(content), {"XP", "experience"})

HasImpactLabel(t) == Includes(t, << Bold, "Impact", Colon, Bold >>)

RECURSIVE StripTrailing(_)
\* a text without the punctuation at its end
StripTrailing(t) ==
    IF t # << >> /\ t[Len(t)] \in {Dot, Bang}
    THEN StripTrailing(SubSeq(t, 1, Len(t) - 1)) ELSE t

\* the emphasized token after the Impact label
ImpactTokenOf(t) ==
    LET from == IndexOf(t, << Bold, "Impact", Colon, Bold, Bold >>, 1) + 5
    IN  SubSeq(t, from, IndexOf(t, << Bold >>, from) - 1)

\* C13 as stated: impact is the emphasized token after the block's Impact
\* label without its trailing punctuation, wherever the label stands, and
\* "High" only when the block has no Impact label
C13_ImpactWhereverTheLabelStands ==
    (called = "parseTeamfightContent" /\ HasFightBlock(content)) =>
        /\ Len(teamfightData.criticalFights) = 1
        /\ teamfightData.criticalFights[1].impact
              = IF HasImpactLabel(content)
                THEN StripTrailing(ImpactTokenOf(content))
                ELSE << "High" >>

(***************************************************************************)
(* C14: the most impactful player and the description that goes with it     *)
(***************************************************************************)
\* the patterns of the list that match the text
MatchingImpactful(t) ==
    {i \in 1..Len(impactfulPatterns) : Match(impactfulPatterns[i], t).found}

\* the text after the trigger phrase ("Most Impactful Player", or "most
\* impactful" where the word Player does not follow) up to the next blank line
TextAfterTrigger(t) ==
    LET p == IndexOf(t, << "most impactful" >>, 1)
        from == IF p < Len(t) /\ t[p + 1] = "Player" THEN p + 2 ELSE p + 1
        blank == IndexOf(t, << NL, NL >>, from)
    IN  SubSeq(t, from, IF blank = 0 THEN Len(t) ELSE blank - 1)

\* C14 as stated: when a pattern of the list matches, impactfulPlayer is the
\* emphasized name the first such pattern captured and impactfulPlayerDesc the
\* text after the trigger phrase up to the next blank line, whichever of the
\* three patterns it is; when none matches, impactfulPlayer is null and the
\* description empty
C14_DescriptionForEveryPattern ==
    called = "parseTeamfightContent" =>
        IF MatchingImpactful(content) = {}
        THEN /\ teamfightData.impactfulPlayer = Null
             /\ teamfightData.impactfulPlayerDesc = << >>
        ELSE LET i == Least(MatchingImpactful(content))
                 m == Match(impactfulPatterns[i], content)
             IN  /\ teamfightData.impactfulPlayer
                       = [def |-> TRUE, v |-> Trim(Group(content, m, 1))]
                 /\ teamfightData.impactfulPlayerDesc = TextAfterTrigger(content)

(***************************************************************************)
(* parsePlayerContent on a text that mentions the MVP up to MaxMentions     *)
(* times, each mention in the form one of the MVP patterns looks for        *)
(***************************************************************************)
MaxMentions == 2

MentionForms == {"full", "label", "labelOnly", "bare", "bareDamage", "plain"}

\* the i-th mention of the text
Mention(form, i) ==
    CASE form = "full" ->
            << Bold, HeroAt(i), LP, NameAt(i), RP, Bold, "is the", "MVP", "text",
               "KDA", LP, KdaAt(i), RP, "Hero Damage", LP, "25,000", RP,
               "Tower Damage", LP, "3,100", RP, NL, NL >>
      [] form = "label" ->
            << "MVP", Colon, Bold, HeroAt(i), LP, NameAt(i), RP, Bold, KdaAt(i),
               "25,000", "3,100", NL, NL >>
      [] form = "labelOnly" ->
            << "MVP", Colon, Bold, HeroAt(i), LP, NameAt(i), RP, Bold, KdaAt(i),
               "text", NL, NL >>
      [] form = "bare" ->
            << Bold, HeroAt(i), LP, NameAt(i), RP, Bold, "text", "MVP", "text",
               KdaAt(i), NL, NL >>
      [] form = "bareDamage" ->
            << Bold, HeroAt(i), LP, NameAt(i), RP, Bold, "MVP", KdaAt(i),
               "Hero Damage", LP, "25,000", RP, NL, NL >>
      [] form = "plain" -> << "text", KdaAt(i), NL, NL >>

RECURSIVE Mentions(_, _)
Mentions(fs, i) ==
    IF fs = << >> THEN << >> ELSE Mention(Head(fs), i) \o Mentions(Tail(fs), i + 1)

\* what stands before the mentions: nothing, a line of text, a player block
MentionLeads == {<< >>, << "text", Dot, NL >>, Block("ovK", 3)}

MvpTexts ==
    {lead \o Mentions(fs, 1) :
        lead \in MentionLeads,
        fs \in UNION {[1..n -> MentionForms] : n \in 0..MaxMentions}}

InitMvp ==
    /\ called = "none"
    /\ content \in MvpTexts
    /\ events = << >>
    /\ teamfightData = NoTeamfightData
    /\ playerData = NoPlayerData
    /\ section = << >>
    /\ players = << >>
    /\ ran = {}
    /\ threw = FALSE
    /\ lastIndex = NoLastIndex
    /\ seen = NoneSeen
    /\ again = FALSE
    /\ calls = 0
    /\ DashboardIdle
    /\ ChatIdle

NextMvp == calls = 0 /\ CallParsePlayerContent

SpecMvp == InitMvp /\ [][NextMvp]_vars

(***************************************************************************)
(* C15: the MVP record                                                      *)
(***************************************************************************)
\* the MVP patterns that match the text
MatchingMvp(t) == {i \in 1..Len(mvpPatterns) : Match(mvpPatterns[i], t).found}

\* where the head **X (Y)** captured by the match m starts
CapturedHead(m) == m.c[1][1] - 1

\* the K/D/A triples of the text from position p on
KdaAfter(t, p) == {<< t[q] >> : q \in {q \in p..Len(t) : t[q] \in KdaToks}}

UnitAround(t, p) ==
    LET before == {q \in 1..(p - 1) : t[q] \in {Dot, Bang}}
        after == {q \in (p + 1)..Len(t) : t[q] \in {Dot, Bang}}
    IN  SubSeq(t,
               IF before = {} THEN 1
               ELSE (CHOOSE q \in before : \A r \in before : r <= q) + 1,
               IF after = {} THEN Len(t) ELSE Least(after) - 1)

\* the units that hold a time and a keyword, each named by where it starts
PromotedUnits(t) ==
    {p \in 1..Len(t) :
        /\ t[p] \notin {Dot, Bang}
        /\ (p = 1 \/ t[p - 1] \in {Dot, Bang})
        /\ HasTok(UnitAround(t, p), TimeToks)
        /\ HasTok(UnitAround(t, p), KeywordToks)}

\* d is the text u cut to at most 100 characters
CutTo100(d, u) ==
    /\ StartsWith(u, d.toks)
    /\ IF TextWidth(u) <= 100 THEN d.toks = u /\ d.cut = 0
       ELSE TextWidth(d.toks) + d.cut = 100

\* C16 as stated: the events are those of the units that hold both a time and
\* a keyword, one event for each such unit in text order, its description the
\* trimmed unit cut to at most 100 characters
C16_OneEventPerUnit ==
    called = "extractTimelineEvents" =>
        /\ Len(events) = Cardinality(PromotedUnits(content))
        /\ \A k \in 1..Len(events) :
              CutTo100(events[k].description,
                       Trim(UnitAround(content, Nth(PromotedUnits(content), k))))

\* C16 (amended): a unit gives events if and only if it holds both a time and
\* a keyword, and then one event for each time it holds: the events are, in
\* text order, those of the first ten times that stand in a unit with a
\* keyword, each with that time and the trimmed unit cut to at most 100
\* characters
C16_OneEventPerTime ==
    called = "extractTimelineEvents" =>
        LET Q == CoOccurrences(content)
        IN  /\ Len(events) = (IF Cardinality(Q) < 10 THEN Cardinality(Q) ELSE 10)
            /\ \A k \in 1..Len(events) :
                  /\ events[k].time = content[Nth(Q, k)]
                  /\ CutTo100(events[k].description,
                              Trim(UnitAround(content, Nth(Q, k))))

\* a unit with a keyword and two times gave two events with one description,
\* a unit with a time and no keyword gave none, and a long unit gave an event
\* whose description is cut
C16_Witness ==
    /\ called = "extractTimelineEvents"
    /\ Cardinality(PromotedUnits(content)) = 2
    /\ Cardinality({p \in 1..Len(content) : content[p] \in TimeToks}) = 4
    /\ Len(events) = 3
    /\ events[1].description = events[2].description
    /\ events[1].time # events[2].time
    /\ events[3].description.cut > 0

(***************************************************************************)
(* parsePlayerContent on texts whose rosters stand under the exact          *)
(* headings, under the looser labels, or next to the closing sections       *)
(***************************************************************************)
StandoutHeading == << Bold, "Standout", "Performances" >>

AnchorKinds == {"radH", "radL", "direH", "direL", "standH", "compH"}

\* one anchor and the player block under it
AnchorPart(kind, i) ==
    (CASE kind = "radH" -> RadiantHeading \o << Bold, NL >>
       [] kind = "radL" -> << "Radiant", "Team", Colon, NL >>
       [] kind = "direH" -> DireHeading \o << Bold, NL >>
       [] kind = "direL" -> << "Dire", "Team", Colon, NL >>
       [] kind = "standH" -> StandoutHeading \o << Bold, NL >>
       [] kind = "compH" -> ComparisonHeading \o << Bold, NL >>)
    \o Block("ovK", i)

RECURSIVE AnchorParts(_, _)
AnchorParts(ks, i) ==
    IF ks = << >> THEN << >>
    ELSE AnchorPart(Head(ks), i) \o AnchorParts(Tail(ks), i + 1)

AnchorTexts ==
    {AnchorParts(ks, 1) : ks \in UNION {[1..n -> AnchorKinds] : n \in 0..MaxParts}}

InitSpans ==
    /\ called = "none"
    /\ content \in AnchorTexts
    /\ events = << >>
    /\ teamfightData = NoTeamfightData
    /\ playerData = NoPlayerData
    /\ section = << >>
    /\ players = << >>
    /\ ran = {}
    /\ threw = FALSE
    /\ lastIndex = NoLastIndex
    /\ seen = NoneSeen
    /\ again = FALSE
    /\ calls = 0
    /\ DashboardIdle
    /\ ChatIdle

NextSpans == calls = 0 /\ CallParsePlayerContent

SpecSpans == InitSpans /\ [][NextSpans]_vars

\* where a looser label "Team...:" of the text starts
LabelsAt(t, team) ==
    {p \in 1..Len(t) :
        /\ t[p] = team
        /\ \E q \in (p + 1)..Len(t) : t[q] = Colon}

\* the first position after the team's anchor: after the exact heading if the
\* text has one, otherwise after the colon of the looser label; 0 without any
AfterAnchor(t, heading, team) ==
    IF HeadingsAt(t, heading) # {}
    THEN Least(HeadingsAt(t, heading)) + Len(heading)
    ELSE IF LabelsAt(t, team) # {}
    THEN Least({q \in (Least(LabelsAt(t, team)) + 1)..Len(t) : t[q] = Colon}) + 1
    ELSE 0

\* where the Dire anchor of the text starts: its exact heading, or the looser
\* label in a text without the heading
DireAnchorsAt(t) ==
    IF HeadingsAt(t, DireHeading) # {} THEN HeadingsAt(t, DireHeading)
    ELSE LabelsAt(t, "Dire")

\* the anchors that end a roster span
EndAnchors(t) ==
    DireAnchorsAt(t) \cup HeadingsAt(t, StandoutHeading)
    \cup HeadingsAt(t, ComparisonHeading)

\* the span from the team's anchor to the next end anchor after it, or to the
\* end of the text
SpanAsStated(t, heading, team) ==
    LET from == AfterAnchor(t, heading, team)
        ends == {q \in EndAnchors(t) : q >= from}
    IN  IF from = 0 THEN << >>
        ELSE SubSeq(t, from, IF ends = {} THEN Len(t) ELSE Least(ends) - 1)

\* C17: each roster is read from the span that starts after the team's anchor
\* (exact heading, otherwise looser label) and ends at the next of the Dire
\* anchor, "Standout Performances" and "Team Performance Comparison", or at
\* the end of the text when none follows
C17_SpansEndAtNextAnchor ==
    called = "parsePlayerContent" /\ ~threw =>
        /\ playerData.radiantPlayers =
              parseTeamPlayers(SpanAsStated(content, RadiantHeading, "Radiant"))
        /\ playerData.direPlayers =
              parseTeamPlayers(SpanAsStated(content, DireHeading, "Dire"))

\* C18: no player block of the text gives a record to both rosters
C18_RostersDisjoint ==
    called = "parsePlayerContent" /\ ~threw =>
        \A i \in 1..Len(playerData.radiantPlayers) :
            \A j \in 1..Len(playerData.direPlayers) :
                playerData.radiantPlayers[i].hero # playerData.direPlayers[j].hero

(***************************************************************************)
(* C19: a change of matchId while a fetch is in flight                      *)
(***************************************************************************)
\* the fetch started for the matchId the route shows now
CurrentFetch(req) == req.n = fetches

\* C19: while the fetch for the current matchId is pending loading is true,
\* and once every fetch has settled what the dashboard holds is the result of
\* a fetch for the current matchId: the last state written came from it, and
\* an analysis shown is that of the current match
C19_CurrentFetchGoverns ==
    /\ (\E req \in pending : CurrentFetch(req)) => loading
    /\ (pending = {} /\ fetches > 0) =>
          /\ settled.id = matchId
          /\ outcome = "ok" => analysis.match_id = matchId

(***************************************************************************)
(* The chat: ChatInput hands messages to handleSendMessage of              *)
(* ChatInterface, which sends them to the backend                          *)
(***************************************************************************)
MaxSends == 2

\* what the user may have typed, character by character
Inputs == {<< >>, << " " >>, << "h", "i" >>, << " ", "g", "g", " " >>}

RECURSIVE trimStart(_)
trimStart(s) ==
    IF s # << >> /\ Head(s) = " " THEN trimStart(Tail(s)) ELSE s

RECURSIVE trimEnd(_)
trimEnd(s) ==
    IF s # << >> /\ s[Len(s)] = " " THEN trimEnd(SubSeq(s, 1, Len(s) - 1)) ELSE s

\* String.prototype.trim
trim(s) == trimEnd(trimStart(s))

\* App.jsx line 53
UserMessage(userMessage) == [role |-> "user", content |-> userMessage]

\* App.jsx lines 65-68
ErrorMessage(message) ==
    [role |-> "assistant",
     content |-> << "Sorry, I encountered an error: ", message,
                    ". Please make sure the backend is running." >>]

AssistantMessage(reply) == [role |-> "assistant", content |-> << reply >>]

\* a list that holds nothing but the message
ReplaceMessages(prev, message) == << message >>

\* App.jsx lines 54 and 69: (prev) => [...prev, message]
AppendMessage(prev, message) == Append(prev, message)

\* the body POST /chat answers with: the reply and the conversation as the
\* backend holds it, the whole of it or the last exchange alone
ChatResponses(req) ==
    {[response |-> "Based on recent data...", conversation_history |-> h] :
        h \in {req.history \o << UserMessage(req.message),
                                 AssistantMessage("Based on recent data...") >>,
               << UserMessage(req.message),
                  AssistantMessage("Based on recent data...") >>}}

\* error.message of what sendMessage throws: fetch failing, or a response
\* that is not ok
ChatErrors == {"Failed to fetch", "HTTP error! status: 500"}

InitChat ==
    /\ ExtractorsIdle
    /\ DashboardIdle
    /\ ChatIdle

\* ChatInput.jsx line 20: onChange of the input, which line 23 disables while
\* isLoading
Change(text) ==
    /\ ~isLoading
    /\ input' = text
    /\ UNCHANGED << messages, isLoading, inFlight, sends, chatResult >>
    /\ UNCHANGED << extractorVars, dashboardVars >>

\* App.jsx lines 52-58: handleSendMessage up to its await
handleSendMessage(userMessage) ==
    /\ messages' = AppendMessage(messages, UserMessage(userMessage))
    /\ isLoading' = TRUE
    /\ inFlight' = inFlight \cup
          {[message |-> userMessage, history |-> messages, n |-> sends + 1]}
    /\ sends' = sends + 1
    /\ UNCHANGED chatResult

\* ChatInput.jsx lines 7-13
handleSubmit ==
    /\ sends < MaxSends
    /\ trim(input) # << >> /\ ~isLoading
    /\ handleSendMessage(input)
    /\ input' = << >>
    /\ UNCHANGED << extractorVars, dashboardVars >>

\* App.jsx lines 58-63 and 70-72: the awaited sendMessage resolves
SendResolves(req, data) ==
    /\ req \in inFlight
    /\ inFlight' = inFlight \ {req}
    /\ messages' = data.conversation_history
    /\ isLoading' = FALSE
    /\ chatResult' = [kind |-> "ok", message |-> req.message,
                      history |-> req.history,
                      data |-> data.conversation_history, error |-> ""]
    /\ UNCHANGED << input, sends >>
    /\ UNCHANGED << extractorVars, dashboardVars >>

\* App.jsx lines 64-72: the awaited sendMessage rejects
SendRejects(req, message) ==
    /\ req \in inFlight
    /\ inFlight' = inFlight \ {req}
    /\ messages' = AppendMessage(messages, ErrorMessage(message))
    /\ isLoading' = FALSE
    /\ chatResult' = [kind |-> "failed", message |-> req.message,
                      history |-> req.history, data |-> << >>,
                      error |-> message]
    /\ UNCHANGED << input, sends >>
    /\ UNCHANGED << extractorVars, dashboardVars >>

\* a sendMessage call in flight settles
Settle ==
    \/ \E req \in inFlight : \E data \in ChatResponses(req) : SendResolves(req, data)
    \/ \E req \in inFlight : \E message \in ChatErrors : SendRejects(req, message)

NextChat ==
    \/ \E text \in Inputs : Change(text)
    \/ handleSubmit
    \/ Settle

SpecChat == InitChat /\ [][NextChat]_vars

\* the promise of fetch settles, with a response or with an error, and the
\* event loop then runs what follows the await
FairChat == SpecChat /\ WF_vars(Settle)

\* C20: a message is handed over only when the input is not blank and
\* isLoading is false, so at most one request is in flight; every send is
\* followed by isLoading false again; a success leaves exactly the
\* conversation_history the backend returned as the list, a failure the list
\* before the send plus the user's message plus one error message
C20_ChatSends ==
    /\ [](Cardinality(inFlight) <= 1)
    /\ [][sends' # sends =>
             trim(input) # << >> /\ ~isLoading /\ inFlight = {}]_vars
    /\ [][(sends' = sends /\ inFlight' # inFlight /\ chatResult'.kind = "ok") =>
             messages' = chatResult'.data /\ ~isLoading']_vars
    /\ [][(sends' = sends /\ inFlight' # inFlight /\ chatResult'.kind = "failed") =>
             /\ messages' = chatResult'.history
                            \o << UserMessage(chatResult'.message),
                                  ErrorMessage(chatResult'.error) >>
             /\ ~isLoading']_vars
    /\ (isLoading ~> ~isLoading)

\* a second send failed after a first one succeeded: the list holds the
\* exchange of the first, the user's second message and the error message
C20_Witness ==
    /\ sends = 2
    /\ chatResult.kind = "failed"
    /\ ~isLoading /\ inFlight = {}
    /\ Len(messages) = 4
    /\ messages[1].role = "user" /\ messages[2] = AssistantMessage("Based on recent data...")
    /\ messages[3] = UserMessage(<< " ", "g", "g", " " >>)
    /\ messages[4] = ErrorMessage("Failed to fetch")

====
